---- MODULE Spec2Model ----
(***************************************************************************)
(* DXF structural parser and geometry builder of byjay/3DVIEW.             *)
(*                                                                         *)
(* Two implementations of the same decoder are modelled side by side:      *)
(*   "parseDXF"          src/src/utils/dxfParser.ts                        *)
(*   "parseAndBuildDXF"  src/components/MultiDXFViewer.tsx                 *)
(*   "part_002.parseDXF" src/unnamed/part_002, line 1582 (layer groups)    *)
(* The variable impl says which one a behaviour runs.  parseDXF of part_002, *)
(* line 376, is parseDXF of dxfParser.ts statement for statement (its second *)
(* case 50 and case 10 follow a first one and are never selected).          *)
(*                                                                         *)
(* Text is a sequence of symbols.  Digits, blanks and line terminators are *)
(* single characters; a DXF keyword or a name ("SECTION", "DOOR") is one   *)
(* symbol, since no operation of the program looks inside such a word.     *)
(***************************************************************************)
EXTENDS Integers, Sequences, FiniteSets, TLC

VARIABLES
    impl,                 \* which implementation runs
    src,                  \* "any": lines are revealed pair by pair; "text": read from files
    docs,                 \* history: how each file was composed ("text" only)
    files,                \* contents handed to successive parse calls ("text" only)
    call,                 \* number of the current parse call (0 before the first)
    pc,                   \* "idle" | "pass1" | "pass2" | "done"
    lines,                \* content.split(/\r?\n/)
    i,                    \* loop index of pass 1
    section,
    currentBlockName,
    currentBlockEntities,
    currentEntity,
    entities,
    blocks,
    stack,                \* pass 2: the createObject activations
    group,                \* pass 2: the children of the returned group
    groups,               \* groups returned by the calls made so far
    tags,                 \* history: tags the pair loop yielded ("text" only)
    last,                 \* history: the pair just examined by the loop
    blockAt,              \* history: position of the BLOCK tag of the open block
    blockSrc,             \* history: for each stored name, the position of its BLOCK tag
    blk,                  \* history: what was read since the last BLOCK tag
    closed,               \* history: the block closed by the ENDBLK just read
    maxDepth,             \* history: deepest createObject nesting reached
    layerGroups,          \* pass 2 of parseDXF of part_002: the layer groups, in creation order
    decoded,              \* history: the lists and definitions each call had after pass 1
    ui,                   \* the scene, its tree and the selection of a viewer (NoUi: no viewer)
    load                  \* the caller's loop over a batch of files (NoLoad: no caller)

vars == <<impl, src, docs, files, call, pc, lines, i, section, currentBlockName,
          currentBlockEntities, currentEntity, entities, blocks, stack, group,
          groups, tags, last, blockAt, blockSrc, blk, closed, maxDepth,
          layerGroups, decoded, ui, load>>

decoderVars == <<section, currentBlockName, currentBlockEntities,
                 currentEntity, entities, blocks>>

histVars == <<blockAt, blockSrc, blk, closed>>

\* no viewer holds the groups
NoUi == [app |-> "none"]

-----------------------------------------------------------------------------
(* Bounds *)

MaxPairs == 5          \* pairs revealed to one parse call when src = "any"
MaxTextPairs == 3      \* pairs of a file composed of well-formed pairs
StackLimit == 11       \* createObject nesting at which the engine throws RangeError
MaxBatch == 2          \* files handed to one load
MaxPassPairs == 3      \* pairs of a file composed of arbitrary pairs
MaxVertices == 3       \* vertices of a polyline of the inputs
MaxFiles == 2          \* files of a scene
MaxOps == 3            \* operations of a viewer on a scene
MaxLoads == 2          \* loads in a row
MaxSelected == 2       \* files picked in one file dialog
MaxAdds == 2           \* file dialogs in a row
MaxEdits == 2          \* moves and rotations of one session

\* createObj of parseAndBuildDXF: if (level > 8) return null
MaxLevel == 8

-----------------------------------------------------------------------------
(* Strings *)

Digits == {"0", "1", "2", "3", "4", "5", "6", "7", "8", "9"}
DigitVal(c) == CASE c = "0" -> 0 [] c = "1" -> 1 [] c = "2" -> 2 [] c = "3" -> 3
                 [] c = "4" -> 4 [] c = "5" -> 5 [] c = "6" -> 6 [] c = "7" -> 7
                 [] c = "8" -> 8 [] c = "9" -> 9

LF == "\n"
CR == "\r"
WhiteSpace == {" ", "\t", CR, LF}

\* JavaScript null for a string-valued variable; no input text contains this symbol.
Null == <<"<null>">>
EmptyStr == <<>>

SECTION == <<"SECTION">>
ENDSEC == <<"ENDSEC">>
BLOCK == <<"BLOCK">>
ENDBLK == <<"ENDBLK">>
ENTITIES == <<"ENTITIES">>
BLOCKS == <<"BLOCKS">>
INSERT == <<"INSERT">>
LINE == <<"LINE">>
LWPOLYLINE == <<"LWPOLYLINE">>
CIRCLE == <<"CIRCLE">>
ARC == <<"ARC">>

\* a string used as a condition: null and '' are falsy
Truthy(s) == s # Null /\ s # EmptyStr

RECURSIVE TrimStart(_)
TrimStart(s) ==
    IF s # <<>> /\ Head(s) \in WhiteSpace THEN TrimStart(Tail(s)) ELSE s

RECURSIVE TrimEnd(_)
TrimEnd(s) ==
    IF s # <<>> /\ s[Len(s)] \in WhiteSpace
    THEN TrimEnd(SubSeq(s, 1, Len(s) - 1)) ELSE s

\* String.prototype.trim
Trim(s) == TrimEnd(TrimStart(s))

\* a number, NaN, or (for an optional field) undefined
NaN == [def |-> TRUE, nan |-> TRUE, val |-> 0]
Num(n) == [def |-> TRUE, nan |-> FALSE, val |-> n]
Undefined == [def |-> FALSE, nan |-> FALSE, val |-> 0]

RECURSIVE DigitPrefix(_)
DigitPrefix(s) ==
    IF s # <<>> /\ Head(s) \in Digits THEN <<Head(s)>> \o DigitPrefix(Tail(s)) ELSE <<>>

RECURSIVE DecimalValue(_)
DecimalValue(ds) ==
    IF ds = <<>> THEN 0 ELSE 10 * DecimalValue(SubSeq(ds, 1, Len(ds) - 1)) + DigitVal(ds[Len(ds)])

\* parseInt(s, 10): leading blanks, an optional sign, then the longest run of digits
ParseInt10(s) ==
    LET t == TrimStart(s)
        neg == t # <<>> /\ Head(t) = "-"
        u == IF t # <<>> /\ Head(t) \in {"-", "+"} THEN Tail(t) ELSE t
        ds == DigitPrefix(u)
    IN IF ds = <<>> THEN NaN
       ELSE Num(IF neg THEN 0 - DecimalValue(ds) ELSE DecimalValue(ds))

\* parseInt(s): as above, except that a 0x / 0X prefix selects radix 16
ParseIntAuto(s) ==
    LET t == TrimStart(s)
        neg == t # <<>> /\ Head(t) = "-"
        u == IF t # <<>> /\ Head(t) \in {"-", "+"} THEN Tail(t) ELSE t
        hex == Len(u) >= 2 /\ u[1] = "0" /\ u[2] \in {"x", "X"}
        hs == IF hex THEN DigitPrefix(SubSeq(u, 3, Len(u))) ELSE <<>>
        RECURSIVE HexValue(_)
        HexValue(ds) == IF ds = <<>> THEN 0
                        ELSE 16 * HexValue(SubSeq(ds, 1, Len(ds) - 1)) + DigitVal(ds[Len(ds)])
    IN IF hex
       THEN (IF hs = <<>> THEN NaN ELSE Num(IF neg THEN 0 - HexValue(hs) ELSE HexValue(hs)))
       ELSE ParseInt10(s)

\* parseFloat(s), for the texts of this model (no fraction, no exponent)
ParseFloat(s) == ParseInt10(s)

\* content.split(/\r?\n/): the matches of the separator are every LF, together
\* with the CR right before it if there is one; the lines are the text between
\* consecutive matches, one more than there are matches
SplitLines(content) ==
    LET ends == {p \in 1 .. Len(content) : content[p] = LF}
        n == Cardinality(ends)
        NthEnd(k) == CHOOSE p \in ends : Cardinality({q \in ends : q < p}) = k - 1
        First(k) == IF k = 1 THEN 1 ELSE NthEnd(k - 1) + 1
        Last(k) == IF k = n + 1 THEN Len(content)
                   ELSE LET p == NthEnd(k)
                        IN IF p - 1 >= First(k) /\ content[p - 1] = CR THEN p - 2 ELSE p - 1
    IN [k \in 1 .. n + 1 |-> SubSeq(content, First(k), Last(k))]

-----------------------------------------------------------------------------
(* Entities and decoder state *)

\* DXFEntity.  at, sec0 and blk0 are history: the position of the entity's
\* type tag, and the section and open block the decoder had when it read it.
\* vertices is <<>> while e.vertices is undefined (the array is created by its
\* first push); closed is "undefined", "true" or "false".
\* e.scale: undefined, or an object { x, y, z }
NoScale == [def |-> FALSE, x |-> Undefined, y |-> Undefined, z |-> Undefined]

\* if (!currentEntity.scale) currentEntity.scale = { x: 1, y: 1, z: 1 };
\* currentEntity.scale[axis] = valNum
SetScale(scale, axis, valNum) ==
    [(IF scale.def THEN scale ELSE [def |-> TRUE, x |-> Num(1), y |-> Num(1), z |-> Num(1)])
        EXCEPT ![axis] = valNum]

NewEntity(type, at, sec0, blk0) ==
    [type |-> type, layer |-> Null, blockName |-> Null,
     x |-> Undefined, y |-> Undefined, z |-> Undefined,
     x1 |-> Undefined, y1 |-> Undefined, z1 |-> Undefined,
     x2 |-> Undefined, y2 |-> Undefined, z2 |-> Undefined,
     x3 |-> Undefined, y3 |-> Undefined, z3 |-> Undefined,
     startAngle |-> Undefined, endAngle |-> Undefined, radius |-> Undefined,
     rotation |-> Undefined, scale |-> NoScale,
     vertices |-> <<>>, closed |-> "undefined",
     at |-> at, sec0 |-> sec0, blk0 |-> blk0]

\* currentEntity = null
NoEntity == NewEntity(Null, 0, Null, 0)

\* InitialLocals keeping the section and the open block of the call before
InitialLocalsKeepSection ==
    [section |-> section, currentBlockName |-> currentBlockName,
     currentBlockEntities |-> <<>>, currentEntity |-> NoEntity, entities |-> <<>>,
     blocks |-> <<>>]

\* the locals of one parse call
InitialLocals ==
    [section |-> Null, currentBlockName |-> Null, currentBlockEntities |-> <<>>,
     currentEntity |-> NoEntity, entities |-> <<>>, blocks |-> <<>>]

Locals ==
    [section |-> section, currentBlockName |-> currentBlockName,
     currentBlockEntities |-> currentBlockEntities, currentEntity |-> currentEntity,
     entities |-> entities, blocks |-> blocks]

\* blocks[name] = ents
StoreBlock(b, name, ents) ==
    [n \in (DOMAIN b) \cup {name} |-> IF n = name THEN ents ELSE b[n]]

HasBlock(b, name) == name \in DOMAIN b

\* CommitEntity with the block buffer filled at its front (unshift for push)
CommitEntityAtFront(d) ==
    IF d.currentEntity = NoEntity THEN d
    ELSE IF d.section = BLOCKS /\ Truthy(d.currentBlockName)
         THEN [d EXCEPT !.currentBlockEntities = <<d.currentEntity>> \o @,
                        !.currentEntity = NoEntity]
    ELSE IF d.section = ENTITIES
         THEN [d EXCEPT !.entities = Append(@, d.currentEntity),
                        !.currentEntity = NoEntity]
    ELSE [d EXCEPT !.currentEntity = NoEntity]

\* commitEntity of parseDXF, commit of parseAndBuildDXF
CommitEntity(d) ==
    IF d.currentEntity = NoEntity THEN d
    ELSE IF d.section = BLOCKS /\ Truthy(d.currentBlockName)
         THEN [d EXCEPT !.currentBlockEntities = Append(@, d.currentEntity),
                        !.currentEntity = NoEntity]
    ELSE IF d.section = ENTITIES
         THEN [d EXCEPT !.entities = Append(@, d.currentEntity),
                        !.currentEntity = NoEntity]
    ELSE [d EXCEPT !.currentEntity = NoEntity]

\* FinalCommit dropping the entity in progress
FinalCommitDrops(d) == [d EXCEPT !.currentEntity = NoEntity]

\* the commitEntity() call after the pair loop
FinalCommit(d) == CommitEntity(d)

\* RenderedEntities with the entities of a block definition behind model space
RenderedEntitiesAndBlock(d) ==
    IF DOMAIN d.blocks = {} THEN d.entities
    ELSE d.entities \o d.blocks[CHOOSE n \in DOMAIN d.blocks : TRUE]

\* the list the top-level build goes over: entities.forEach(...)
RenderedEntities(d) == d.entities

\* InDecodableContext without the section test for an open block
InDecodableContextAnyBlock(d) ==
    d.section = ENTITIES \/ d.currentBlockName # Null

\* the condition under which a type tag starts an entity
InDecodableContext(d) ==
    d.section = ENTITIES \/ (d.section = BLOCKS /\ d.currentBlockName # Null)

\* OnCode0 storing the buffer at ENDBLK whether or not a name was captured
OnCode0StoreUnnamed(d, value, at, bAt) ==
    LET c == CommitEntity(d) IN
    IF value = SECTION THEN [c EXCEPT !.section = Null]
    ELSE IF value = ENDSEC THEN [c EXCEPT !.section = Null]
    ELSE IF value = BLOCK
         THEN [c EXCEPT !.currentBlockName = EmptyStr, !.currentBlockEntities = <<>>]
    ELSE IF value = ENDBLK
         THEN [c EXCEPT !.blocks = StoreBlock(@, c.currentBlockName, c.currentBlockEntities),
                        !.currentBlockName = Null,
                        !.currentBlockEntities = <<>>]
    ELSE IF InDecodableContext(c)
         THEN [c EXCEPT !.currentEntity = NewEntity(value, at, c.section, bAt)]
    ELSE c

\* parseDXF, code === 0
OnCode0(d, value, at, bAt) ==
    LET c == CommitEntity(d) IN
    IF value = SECTION THEN [c EXCEPT !.section = Null]
    ELSE IF value = ENDSEC THEN [c EXCEPT !.section = Null]
    ELSE IF value = BLOCK
         THEN [c EXCEPT !.currentBlockName = EmptyStr, !.currentBlockEntities = <<>>]
    ELSE IF value = ENDBLK
         THEN [c EXCEPT !.blocks = IF Truthy(c.currentBlockName)
                                    THEN StoreBlock(@, c.currentBlockName, c.currentBlockEntities)
                                    ELSE @,
                        !.currentBlockName = Null,
                        !.currentBlockEntities = <<>>]
    ELSE IF InDecodableContext(c)
         THEN [c EXCEPT !.currentEntity = NewEntity(value, at, c.section, bAt)]
    ELSE c

\* OnCode2 testing for an INSERT in progress before the block-name rule
OnCode2InsertFirst(d, value) ==
    IF d.section = Null /\ value \in {ENTITIES, BLOCKS}
    THEN [d EXCEPT !.section = value]
    ELSE IF d.currentEntity # NoEntity /\ d.currentEntity.type = INSERT
         THEN [d EXCEPT !.currentEntity.blockName = value]
    ELSE IF d.section = BLOCKS /\ d.currentBlockName = EmptyStr
         THEN [d EXCEPT !.currentBlockName = value]
    ELSE d

\* parseDXF, code === 2
OnCode2(d, value) ==
    IF d.section = Null /\ value \in {ENTITIES, BLOCKS}
    THEN [d EXCEPT !.section = value]
    ELSE IF d.section = BLOCKS /\ d.currentBlockName = EmptyStr
         THEN [d EXCEPT !.currentBlockName = value]
    ELSE IF d.currentEntity # NoEntity /\ d.currentEntity.type = INSERT
         THEN [d EXCEPT !.currentEntity.blockName = value]
    ELSE d

\* the codes of the coordinate triples and the fields they fill
CoordCodes == {10, 20, 30, 11, 21, 31, 12, 22, 32, 13, 23, 33}
CoordField(code) ==
    CASE code = 10 -> "x" [] code = 20 -> "y" [] code = 30 -> "z"
      [] code = 11 -> "x1" [] code = 21 -> "y1" [] code = 31 -> "z1"
      [] code = 12 -> "x2" [] code = 22 -> "y2" [] code = 32 -> "z2"
      [] code = 13 -> "x3" [] code = 23 -> "y3" [] code = 33 -> "z3"

\* the codes of the scale components and the axes they fill
ScaleCodes == {41, 42, 43}
ScaleAxis(code) == CASE code = 41 -> "x" [] code = 42 -> "y" [] code = 43 -> "z"

\* ClosedFlag taking any flag other than 0 for closed
ClosedFlagNonZero(valNum) ==
    IF ~valNum.nan /\ valNum.val # 0 THEN "true" ELSE "false"

\* (valNum & 1) === 1: NaN converts to 0
ClosedFlag(valNum) ==
    IF ~valNum.nan /\ valNum.val % 2 = 1 THEN "true" ELSE "false"

\* if (currentEntity.type === 'LWPOLYLINE') { ... }: a code-10 tag pushes the
\* vertex { x: valNum, y: 0, z: 0 }, a code-20 tag sets y of the last vertex,
\* a code-70 tag sets closed
PolylineProperty(e, code, valNum) ==
    IF code = 10 THEN [e EXCEPT !.vertices = Append(@, [x |-> valNum, y |-> Num(0)])]
    ELSE IF code = 20 /\ e.vertices # <<>>
         THEN [e EXCEPT !.vertices[Len(e.vertices)].y = valNum]
    ELSE IF code = 70 THEN [e EXCEPT !.closed = ClosedFlag(valNum)]
    ELSE e

\* parseDXF, the switch on code for an entity in progress, followed by the
\* LWPOLYLINE block: the coordinate triples, the radius of code 40 (no code
\* creates e.knots), the angles of codes 50 and 51 and the scale components
\* (the entity record of this model carries no control points).  The switch
\* has no case for code 8, and its case 50 fills startAngle only.
SetProperty(e, code, valNum) ==
    LET s == IF code \in CoordCodes THEN [e EXCEPT ![CoordField(code)] = valNum]
             ELSE IF code = 40 THEN [e EXCEPT !.radius = valNum]
             ELSE IF code = 50 THEN [e EXCEPT !.startAngle = valNum]
             ELSE IF code = 51 THEN [e EXCEPT !.endAngle = valNum]
             ELSE IF code \in ScaleCodes
                  THEN [e EXCEPT !.scale = SetScale(@, ScaleAxis(code), valNum)]
             ELSE e
    IN IF e.type = LWPOLYLINE THEN PolylineProperty(s, code, valNum) ELSE s

\* OnProperty writing to the entity committed last when none is in progress
OnPropertyLastCommitted(d, code, value) ==
    LET valNum == ParseFloat(value) IN
    IF d.currentEntity = NoEntity
    THEN (IF d.entities # <<>>
          THEN [d EXCEPT !.entities[Len(d.entities)] = SetProperty(@, code, valNum)]
          ELSE d)
    ELSE [d EXCEPT !.currentEntity = SetProperty(@, code, valNum)]

\* parseDXF: else if (currentEntity) { const valNum = parseFloat(value); ... }
OnProperty(d, code, value) ==
    LET valNum == ParseFloat(value) IN
    IF d.currentEntity = NoEntity THEN d
    ELSE [d EXCEPT !.currentEntity = SetProperty(@, code, valNum)]

\* LoopBody taking a code line that is no integer for code 0
LoopBodyNaNIsZero(d, codeLine, valueLine, at, bAt) ==
    LET codeStr == Trim(codeLine)
        value == Trim(valueLine)
        code == ParseInt10(codeStr)
    IN IF codeStr = EmptyStr THEN d
       ELSE IF code.nan \/ code.val = 0 THEN OnCode0(d, value, at, bAt)
       ELSE IF code.val = 2 THEN OnCode2(d, value)
       ELSE OnProperty(d, code.val, value)

\* parseDXF, the body of the pair loop
LoopBody(d, codeLine, valueLine, at, bAt) ==
    LET codeStr == Trim(codeLine)
        value == Trim(valueLine)
        code == ParseInt10(codeStr)
    IN IF codeStr = EmptyStr THEN d
       ELSE IF code.nan THEN d
       ELSE IF code.val = 0 THEN OnCode0(d, value, at, bAt)
       ELSE IF code.val = 2 THEN OnCode2(d, value)
       ELSE OnProperty(d, code.val, value)

\* parseDXF of part_002, the body of the pair loop: that of parseDXF, with
\* else if (code === 8 && currentEntity) currentEntity.layer = value
\* before the switch
LayeredLoopBody(d, codeLine, valueLine, at, bAt) ==
    LET codeStr == Trim(codeLine)
        value == Trim(valueLine)
        code == ParseInt10(codeStr)
    IN IF codeStr = EmptyStr THEN d
       ELSE IF code.nan THEN d
       ELSE IF code.val = 0 THEN OnCode0(d, value, at, bAt)
       ELSE IF code.val = 2 THEN OnCode2(d, value)
       ELSE IF code.val = 8 /\ d.currentEntity # NoEntity
            THEN [d EXCEPT !.currentEntity.layer = value]
       ELSE OnProperty(d, code.val, value)

\* entity types parseAndBuildDXF starts a record for
ViewerTypes == {LINE, LWPOLYLINE, CIRCLE, ARC, <<"3DFACE">>, INSERT}

\* parseAndBuildDXF, code === 0
ViewerOnCode0(d, val, at, bAt) ==
    LET c == CommitEntity(d) IN
    IF val = SECTION THEN [c EXCEPT !.section = Null]
    ELSE IF val = ENDSEC THEN [c EXCEPT !.section = Null]
    ELSE IF val = BLOCK
         THEN [c EXCEPT !.currentBlockName = EmptyStr, !.currentBlockEntities = <<>>]
    ELSE IF val = ENDBLK
         THEN [c EXCEPT !.blocks = IF Truthy(c.currentBlockName)
                                    THEN StoreBlock(@, c.currentBlockName, c.currentBlockEntities)
                                    ELSE @,
                        !.currentBlockName = Null]
    ELSE IF val \in ViewerTypes /\ InDecodableContext(c)
         THEN [c EXCEPT !.currentEntity = NewEntity(val, at, c.section, bAt)]
    ELSE c

\* parseAndBuildDXF, the chain of tests on an entity in progress.  Its last
\* test, (code === 10 || code === 20) for an LWPOLYLINE, comes after the tests
\* code === 10 and code === 20 of the coordinates and is never reached: no
\* vertex is ever pushed.
ViewerOnProperty(d, code, val) ==
    LET num == ParseFloat(val) IN
    IF code = 8 THEN [d EXCEPT !.currentEntity.layer = val]
    ELSE IF code = 2 /\ d.currentEntity.type = INSERT
         THEN [d EXCEPT !.currentEntity.blockName = val]
    ELSE IF code \in CoordCodes THEN [d EXCEPT !.currentEntity[CoordField(code)] = num]
    ELSE IF code = 40 THEN [d EXCEPT !.currentEntity.radius = num]
    ELSE IF code = 50
         THEN [d EXCEPT !.currentEntity.startAngle = num, !.currentEntity.rotation = num]
    ELSE IF code = 51 THEN [d EXCEPT !.currentEntity.endAngle = num]
    ELSE IF code \in ScaleCodes
         THEN [d EXCEPT !.currentEntity.scale = SetScale(@, ScaleAxis(code), num)]
    ELSE IF code = 70 /\ d.currentEntity.type = LWPOLYLINE
         THEN [d EXCEPT !.currentEntity.closed = ClosedFlag(num)]
    ELSE d

\* parseAndBuildDXF, the body of the pair loop
ViewerLoopBody(d, codeLine, valueLine, at, bAt) ==
    LET code == ParseIntAuto(Trim(codeLine))
        val == Trim(valueLine)
    IN IF ~code.nan /\ code.val = 0 THEN ViewerOnCode0(d, val, at, bAt)
       ELSE IF ~code.nan /\ code.val = 2 /\ val \in {ENTITIES, BLOCKS}
            THEN [d EXCEPT !.section = val]
       ELSE IF ~code.nan /\ code.val = 2 /\ d.section = BLOCKS /\ d.currentBlockName = EmptyStr
            THEN [d EXCEPT !.currentBlockName = val]
       ELSE IF d.currentEntity # NoEntity /\ ~code.nan
            THEN ViewerOnProperty(d, code.val, val)
       ELSE d

\* LoopContinues stopping one line early
LoopContinuesShort(ls, idx) == idx < Len(ls) - 2

\* the condition of the pair loop: i < lines.length - 1
LoopContinues(ls, idx) == idx < Len(ls) - 1

\* NextIndex leaving the index where it is
NextIndexStays(idx) == idx

\* the step of the pair loop: i += 2
NextIndex(idx) == idx + 2

\* the tag a pair of lines yields: its code (NaN when the line is no integer) and value
CodeOf(im, codeLine) ==
    IF im = "parseAndBuildDXF" THEN ParseIntAuto(Trim(codeLine)) ELSE ParseInt10(Trim(codeLine))

Step(im, d, codeLine, valueLine, at, bAt) ==
    IF im = "parseDXF" THEN LoopBody(d, codeLine, valueLine, at, bAt)
    ELSE IF im = "part_002.parseDXF" THEN LayeredLoopBody(d, codeLine, valueLine, at, bAt)
    ELSE ViewerLoopBody(d, codeLine, valueLine, at, bAt)

-----------------------------------------------------------------------------
(* History kept beside the decoder *)

Structural == {SECTION, ENDSEC, BLOCK, ENDBLK}

\* the tag a pair of lines yields; skipped when the loop body leaves by continue
\* (parseDXF) or when no test of the chain can match (parseAndBuildDXF)
TagOf(im, codeLine, valueLine) ==
    LET code == CodeOf(im, codeLine) IN
    [code |-> code, value |-> Trim(valueLine),
     skipped |-> code.nan \/ (im # "parseAndBuildDXF" /\ Trim(codeLine) = EmptyStr)]

NoTag == [code |-> NaN, value |-> Null, skipped |-> TRUE]

IsCode0(t, value) == ~t.skipped /\ t.code.val = 0 /\ t.value = value
IsTypeTag(t) == ~t.skipped /\ t.code.val = 0 /\ t.value \notin Structural

NoBlk == [seen |-> <<>>, clean |-> FALSE, nameFirst |-> FALSE]
NoClosed == [name |-> Null, seen |-> <<>>, clean |-> FALSE, nameFirst |-> FALSE, at |-> 0]

\* position of the pair the loop is at, counted from 1
Pos == (i \div 2) + 1

-----------------------------------------------------------------------------
(* Pass 2: geometry *)

\* e.x || 0
OrZero(n) == IF n.def /\ ~n.nan THEN n.val ELSE 0

\* a number used as a condition: undefined, NaN and 0 are falsy
TruthyNum(n) == n.def /\ ~n.nan /\ n.val # 0

FACE == <<"3DFACE">>

\* a component handed to new THREE.Vector3: parseDXF writes e.x || 0, createObj
\* of parseAndBuildDXF writes e.x, which the constructor defaults to 0 only
\* when it is undefined
Component(n) ==
    IF impl = "parseAndBuildDXF" THEN (IF n.def THEN n ELSE Num(0)) ELSE Num(OrZero(n))

Vector3(nx, ny, nz) == [x |-> Component(nx), y |-> Component(ny), z |-> Component(nz)]

\* Vector3.equals: componentwise ===, which NaN never satisfies
VectorEquals(p, q) ==
    \A a \in {"x", "y", "z"} : ~p[a].nan /\ ~q[a].nan /\ p[a].val = q[a].val

\* 3DFACE: the number of points handed to setFromPoints, four corner points
\* and, if (!pts[3].equals(pts[2])), pts[0] and pts[2] once more
FacePoints(e) ==
    LET p3 == Vector3(e.x3, e.y3, e.z3)
        p2 == Vector3(e.x2, e.y2, e.z2)
    IN IF VectorEquals(p3, p2) THEN 4 ELSE 6

\* ScaleOf taking 0 for an axis that was not given
ScaleOfDefaultZero(e, a) ==
    IF impl = "parseAndBuildDXF"
    THEN (IF e.scale.def /\ TruthyNum(e.scale[a]) THEN e.scale[a] ELSE Num(0))
    ELSE (IF e.scale.def THEN e.scale[a] ELSE Num(0))

\* the scale of an INSERT's group along axis a: e.scale?.x ?? 1 in parseDXF,
\* e.scale?.x || 1 in createObj of parseAndBuildDXF
ScaleOf(e, a) ==
    IF impl = "parseAndBuildDXF"
    THEN (IF e.scale.def /\ TruthyNum(e.scale[a]) THEN e.scale[a] ELSE Num(1))
    ELSE (IF e.scale.def THEN e.scale[a] ELSE Num(1))

UnitScale == [x |-> Num(1), y |-> Num(1), z |-> Num(1)]

\* the Euler angles of an object; z holds degrees and stands for z * PI / 180
NoRotation == [x |-> 0, y |-> 0, z |-> 0]

\* if (e.rotation) blockGroup.rotation.z = (e.rotation * Math.PI) / 180
RotationOf(e) ==
    IF TruthyNum(e.rotation) THEN [NoRotation EXCEPT !.z = e.rotation.val] ELSE NoRotation

\* createObj of parseAndBuildDXF: if (obj && e.layer) obj.userData = { layer: e.layer }
UserDataLayer(e) ==
    IF impl = "parseAndBuildDXF" /\ Truthy(e.layer) THEN e.layer ELSE Null

\* e.vertices.map(v => new THREE.Vector3(v.x, v.y, e.z || 0)), and
\* if (e.closed) points.push(points[0]); createObj of parseAndBuildDXF also
\* asks for pts.length > 0
PolylinePoints(e) ==
    LET pts == [k \in 1 .. Len(e.vertices) |->
                  [x |-> e.vertices[k].x, y |-> e.vertices[k].y, z |-> Num(OrZero(e.z))]]
    IN IF e.closed = "true" /\ pts # <<>> THEN Append(pts, pts[1]) ELSE pts

\* curve.getPoints(32): the number of divisions
Segments == 32

\* 2 * Math.PI, in degrees
FullTurn == 360

\* EllipseCurve.getPoint: while (deltaAngle < 0) deltaAngle += twoPi
RECURSIVE RaiseAngle(_)
RaiseAngle(d) == IF d < 0 THEN RaiseAngle(d + FullTurn) ELSE d

\* EllipseCurve.getPoint: while (deltaAngle > twoPi) deltaAngle -= twoPi
RECURSIVE LowerAngle(_)
LowerAngle(d) == IF d > FullTurn THEN LowerAngle(d - FullTurn) ELSE d

\* EllipseCurve.getPoint, the angle swept from aStartAngle to aEndAngle for a
\* counter-clockwise curve, in degrees: brought into 0 .. 2 PI, and a sweep of
\* 0 becomes a full turn unless the two angles are the same
DeltaAngle(start, end) ==
    LET d == LowerAngle(RaiseAngle(end - start))
    IN IF d = 0 THEN (IF end = start THEN 0 ELSE FullTurn) ELSE d

\* Sweep running from the end angle to the start angle
SweepSwapped(start, end) == DeltaAngle(end, start)

\* the sweep of the curve of a CIRCLE or an ARC
Sweep(start, end) == DeltaAngle(start, end)

\* new THREE.EllipseCurve(0, 0, e.radius || 1, e.radius || 1, start, end, false, 0)
\* .getPoints(32): the points getPoint(d / 32) for d = 0 .. 32, each the point
\* at angle start + t * deltaAngle of the circle of radius r around the origin.
\* A CIRCLE runs from 0 to 2 PI, an ARC from (e.startAngle || 0) to
\* (e.endAngle || 0) degrees.  turn is the angle in units of 1/32 degree, taken
\* modulo a full turn (cos and sin have that period).
CurvePoints(e) ==
    LET start == IF e.type = ARC THEN OrZero(e.startAngle) ELSE 0
        end == IF e.type = ARC THEN OrZero(e.endAngle) ELSE FullTurn
        r == IF TruthyNum(e.radius) THEN e.radius.val ELSE 1
    IN [k \in 1 .. Segments + 1 |->
          [turn |-> (Segments * start + (k - 1) * Sweep(start, end)) % (Segments * FullTurn),
           r |-> r]]

\* the points handed to setFromPoints for a polyline or a curve
PathOf(kind, e) ==
    IF kind = "Line" /\ e.type = LWPOLYLINE THEN PolylinePoints(e)
    ELSE IF kind = "Line" /\ e.type \in {CIRCLE, ARC} THEN CurvePoints(e)
    ELSE <<>>

\* a THREE.Object3D: of is history, the position of the entity it was made for;
\* x, y, z are the point (e.x || 0, e.y || 0, e.z || 0) a group or a curve is
\* positioned at and a line or a face starts from; points is the number of
\* points of the geometry, path the points of a polyline or a curve
Object(kind, e, children) ==
    [kind |-> kind, of |-> e.at,
     x |-> OrZero(e.x), y |-> OrZero(e.y), z |-> OrZero(e.z),
     scale |-> IF kind = "Group" THEN [a \in {"x", "y", "z"} |-> ScaleOf(e, a)]
               ELSE UnitScale,
     rotation |-> IF kind = "Group" THEN RotationOf(e) ELSE NoRotation,
     points |-> IF kind = "Line" THEN (IF e.type = LINE THEN 2 ELSE Len(PathOf(kind, e)))
                ELSE IF kind = "Mesh" THEN FacePoints(e) ELSE 0,
     path |-> PathOf(kind, e),
     layer |-> UserDataLayer(e), name |-> Null,
     children |-> children]

\* createObject returned null
NoObject ==
    [kind |-> "null", of |-> 0, x |-> 0, y |-> 0, z |-> 0, scale |-> UnitScale,
     rotation |-> NoRotation, points |-> 0, path |-> <<>>, layer |-> Null,
     name |-> Null, children |-> <<>>]

\* e.type === 'LWPOLYLINE' && e.vertices && e.vertices.length > 1 in parseDXF,
\* e.type === 'LWPOLYLINE' && e.vertices in createObj of parseAndBuildDXF
BuildsPolyline(e) ==
    /\ e.type = LWPOLYLINE
    /\ IF impl = "parseAndBuildDXF" THEN e.vertices # <<>> ELSE Len(e.vertices) > 1

\* CreateLeaf returning an empty group for an INSERT that does not resolve
CreateLeafEmptyGroup(e) ==
    IF e.type = LINE THEN Object("Line", e, <<>>)
    ELSE IF BuildsPolyline(e) THEN Object("Line", e, <<>>)
    ELSE IF e.type \in {CIRCLE, ARC} THEN Object("Line", e, <<>>)
    ELSE IF e.type = FACE THEN Object("Mesh", e, <<>>)
    ELSE IF e.type = INSERT THEN Object("Group", e, <<>>)
    ELSE NoObject

\* createObject / createObj for the entity types that hold no other entity:
\* LINE, LWPOLYLINE, CIRCLE, ARC and 3DFACE (the inputs of this model hold no
\* SPLINE)
CreateLeaf(e) ==
    IF e.type = LINE THEN Object("Line", e, <<>>)
    ELSE IF BuildsPolyline(e) THEN Object("Line", e, <<>>)
    ELSE IF e.type \in {CIRCLE, ARC} THEN Object("Line", e, <<>>)
    ELSE IF e.type = FACE THEN Object("Mesh", e, <<>>)
    ELSE NoObject

\* Resolves looking only at blocks whose entities were read before the INSERT
ResolvesIfReadBefore(e, b) ==
    /\ e.type = INSERT /\ Truthy(e.blockName) /\ HasBlock(b, e.blockName)
    /\ \A k \in 1 .. Len(b[e.blockName]) : b[e.blockName][k].at < e.at

\* e.type === 'INSERT' && e.blockName && blocks[e.blockName]
Resolves(e, b) ==
    e.type = INSERT /\ Truthy(e.blockName) /\ HasBlock(b, e.blockName)

\* one activation of a forEach over entities: the INSERT it builds the group of
\* (NoEntity for the model-space loop), the list, the next index, the children
\* added so far, and the level its createObject calls run at
Frame(e, ents, level) ==
    [e |-> e, ents |-> ents, k |-> 1, kids |-> <<>>, level |-> level]

Top == stack[Len(stack)]

\* the caller's forEach receives obj (null adds nothing) and moves on
Deliver(f, obj) ==
    [f EXCEPT !.k = @ + 1,
              !.kids = IF obj = NoObject THEN @ ELSE Append(@, obj)]

\* TooDeep refusing level 8 already
TooDeepFromMaxLevel(im, level) == im = "parseAndBuildDXF" /\ level >= MaxLevel

\* does createObj refuse the call because of its level?  (parseDXF has no such test)
TooDeep(im, level) == im = "parseAndBuildDXF" /\ level > MaxLevel

ReplaceTop(f) == [stack EXCEPT ![Len(stack)] = f]

Pop == SubSeq(stack, 1, Len(stack) - 1)

\* ---- object literals used as maps ----

\* names every object literal inherits from Object.prototype: blocks[name] and
\* layerGroups[name] are truthy for them although no such key was stored
ObjectPrototypeKeys ==
    {<<"constructor">>, <<"toString">>, <<"valueOf">>, <<"hasOwnProperty">>, <<"__proto__">>}

\* blocks[e.blockName] is truthy but no array: blocks[e.blockName].forEach is
\* not a function
InheritedBlock(e, b) ==
    /\ e.type = INSERT /\ Truthy(e.blockName)
    /\ ~HasBlock(b, e.blockName) /\ e.blockName \in ObjectPrototypeKeys

\* ---- parseDXF of part_002: the layer groups ----

Layered == impl = "part_002.parseDXF"

\* const layerName = e.layer || '0'
LayerName(e) == IF Truthy(e.layer) THEN e.layer ELSE <<"0">>

HasLayer(lg, name) == \E k \in 1 .. Len(lg) : lg[k].name = name

\* if (!layerGroups[layerName]) layerGroups[layerName] = new THREE.Group()
EnsureLayer(lg, name) ==
    IF HasLayer(lg, name) \/ name \in ObjectPrototypeKeys THEN lg
    ELSE Append(lg, [name |-> name, children |-> <<>>])

\* if (obj) layerGroups[layerName].add(obj), for a layer group that exists
AddToLayer(lg, name, obj) ==
    IF obj = NoObject THEN lg
    ELSE [k \in 1 .. Len(lg) |->
            IF lg[k].name = name THEN [lg[k] EXCEPT !.children = Append(@, obj)] ELSE lg[k]]

\* layerGroups[layerName].add is not a function: the name is inherited, not stored
AddThrows(lg, name, obj) ==
    obj # NoObject /\ ~HasLayer(lg, name) /\ name \in ObjectPrototypeKeys

\* a property name that is a canonical array index
IsArrayIndex(name) ==
    /\ name # <<>>
    /\ \A k \in 1 .. Len(name) : name[k] \in Digits
    /\ Len(name) = 1 \/ name[1] # "0"

\* Object.values(layerGroups): the array-index keys in ascending order, then
\* the other keys in the order they were created
ObjectValues(lg) ==
    LET idx == {k \in 1 .. Len(lg) : IsArrayIndex(lg[k].name)}
        Rank(k) ==
            IF k \in idx
            THEN 1 + Cardinality({j \in idx : DecimalValue(lg[j].name) < DecimalValue(lg[k].name)})
            ELSE 1 + Cardinality(idx) + Cardinality({j \in (1 .. Len(lg)) \ idx : j < k})
    IN [r \in 1 .. Len(lg) |-> lg[CHOOSE k \in 1 .. Len(lg) : Rank(k) = r]]

\* the THREE.Group of a layer, named layer_<name>
LayerObject(l) ==
    [NoObject EXCEPT !.kind = "Group", !.name = <<"layer_">> \o l.name,
                     !.children = l.children]

\* Object.values(layerGroups).forEach(g => group.add(g))
LayerObjects(lg) ==
    LET vs == ObjectValues(lg) IN [r \in 1 .. Len(vs) |-> LayerObject(vs[r])]

\* does the createObject step on entity e of frame f end in an uncaught TypeError?
\* createObj of parseAndBuildDXF has no try block; in parseDXF of part_002 the
\* add to the layer group is outside the try block of createObject
CreateThrows(f, e) ==
    \/ impl = "parseAndBuildDXF" /\ ~TooDeep(impl, f.level) /\ InheritedBlock(e, blocks)
    \/ /\ Layered /\ Len(stack) = 1 /\ ~Resolves(e, blocks)
       /\ AddThrows(EnsureLayer(layerGroups, LayerName(e)), LayerName(e), CreateLeaf(e))

\* does the return of the block group now being finished end in an uncaught TypeError?
ReturnThrows ==
    Layered /\ Len(stack) = 2 /\ AddThrows(layerGroups, LayerName(Top.e), Object("Group", Top.e, <<>>))

-----------------------------------------------------------------------------
(* Inputs *)

Impls == {"parseDXF", "parseAndBuildDXF"}

\* no caller: the parse calls are made directly
NoLoad == [loader |-> "none"]

\* ---- the callers that load a batch of files ----

\* loadAllDXFFiles of part_002, line 632, calls parseDXF of line 376 (which is
\* parseDXF of dxfParser.ts); loadAllDXFFiles of line 1777 calls parseDXF of
\* line 1582; handleImport calls parseAndBuildDXF
Loaders == {"loadAllDXFFiles:632", "loadAllDXFFiles:1777", "handleImport"}

ParserOf(loader) ==
    CASE loader = "loadAllDXFFiles:632" -> "parseDXF"
      [] loader = "loadAllDXFFiles:1777" -> "part_002.parseDXF"
      [] loader = "handleImport" -> "parseAndBuildDXF"

BinaryMarker == "AutoCAD Binary DXF"

\* content.length: a symbol counts the characters it is written with
RECURSIVE Length(_)
Length(content) ==
    IF content = <<>> THEN 0
    ELSE (IF Head(content) \in {LF, CR} THEN 1 ELSE Len(Head(content))) + Length(Tail(content))

\* content.startsWith('AutoCAD Binary DXF')
StartsWithMarker(content) == content # <<>> /\ Head(content) = BinaryMarker

\* the tests a loader makes before it parses a file:
\*   loadAllDXFFiles  if (!dxfFile.content || dxfFile.content.length < 10) continue;
\*                    if (dxfFile.content.startsWith('AutoCAD Binary DXF')) continue;
\*   handleImport     if (file.content) { ... }
Rejects(loader, content) ==
    IF loader = "handleImport" THEN content = <<>>
    ELSE content = <<>> \/ Length(content) < 10 \/ StartsWithMarker(content)

NoViewableMessage(loader) ==
    IF loader = "loadAllDXFFiles:632"
    THEN "No viewable objects found in DXF files. Files might be empty, binary, or use unsupported formats."
    ELSE "No viewable objects found in DXF files."

FailureMessage(loader) ==
    IF loader = "loadAllDXFFiles:632" THEN "Critical error while processing files."
    ELSE "Error processing files."

\* the (code line, value line) pairs a file of the "any" source is made of
Code0Values == {SECTION, ENDSEC, BLOCK, ENDBLK, LINE, INSERT, <<"TEXT">>}
NameValues == {ENTITIES, BLOCKS, <<"HEADER">>, <<"A">>, <<>>}
Pairs ==
    ({<<"0">>} \X Code0Values)
    \cup ({<<"2">>} \X NameValues)
    \cup ({<<"8">>} \X {<<"L">>})
    \cup ({<<"1", "0">>} \X {<<"5">>, <<" ", "7", " ">>})
    \cup {<<<<"x">>, LINE>>, <<<<" ">>, ENTITIES>>, <<<<>>, ENDBLK>>}

\* ---- files given as text ----

Pair(c, v) == <<c, v>>

\* a file: its pairs of lines, the line terminator, whether the last line is
\* terminated, and the pair after which one blank line is inserted (0: none)
Doc(pairs, eol, trailing, blankAt) ==
    [pairs |-> pairs, eol |-> eol, trailing |-> trailing, blankAt |-> blankAt]

RECURSIVE DocLinesFrom(_, _)
DocLinesFrom(doc, k) ==
    IF k > Len(doc.pairs) THEN <<>>
    ELSE <<doc.pairs[k][1], doc.pairs[k][2]>>
         \o (IF doc.blankAt = k THEN <<EmptyStr>> ELSE <<>>)
         \o DocLinesFrom(doc, k + 1)

DocLines(doc) == DocLinesFrom(doc, 1)

RECURSIVE Join(_, _)
Join(ls, eol) ==
    IF ls = <<>> THEN <<>>
    ELSE IF Len(ls) = 1 THEN ls[1]
    ELSE ls[1] \o eol \o Join(Tail(ls), eol)

\* the text of a file
Render(doc) ==
    Join(DocLines(doc), doc.eol) \o (IF doc.trailing /\ doc.pairs # <<>> THEN doc.eol ELSE <<>>)

\* well-formed pairs: an integer code line, padded or not, and a value line
WellFormedPairs ==
    { Pair(<<"0">>, SECTION), Pair(<<" ", "2">>, ENTITIES \o <<" ">>),
      Pair(<<"0">>, LINE), Pair(<<"1", "0">>, <<"2">>) }

RECURSIVE SeqsUpTo(_, _)
SeqsUpTo(S, n) ==
    IF n = 0 THEN {<<>>}
    ELSE LET shorter == SeqsUpTo(S, n - 1)
         IN shorter \cup {Append(q, e) : q \in {r \in shorter : Len(r) = n - 1}, e \in S}

Terminators == {<<LF>>, <<CR, LF>>}

\* files of N >= 1 well-formed pairs, with or without one blank line between two of them
PairDocs ==
    { d \in { Doc(ps, eol, tr, b) :
                ps \in SeqsUpTo(WellFormedPairs, MaxTextPairs) \ {<<>>},
                eol \in Terminators, tr \in BOOLEAN, b \in 0 .. MaxTextPairs - 1 } :
        d.blankAt < Len(d.pairs) }

\* a drawing: the bodies of its blocks A and B and its model space, each a list
\* of entity kinds
EntityPairs(kind) ==
    CASE kind = "L" -> <<Pair(<<"0">>, LINE), Pair(<<"1", "0">>, <<"5">>)>>
      [] kind = "IA" -> <<Pair(<<"0">>, INSERT), Pair(<<"2">>, <<"A">>)>>
      [] kind = "IB" -> <<Pair(<<"0">>, INSERT), Pair(<<"2">>, <<"B">>), Pair(<<"1", "0">>, <<"7">>)>>
      [] kind = "IC" -> <<Pair(<<"0">>, INSERT), Pair(<<"2">>, <<"C">>)>>
      [] kind = "I0" -> <<Pair(<<"0">>, INSERT)>>
      [] kind = "T" -> <<Pair(<<"0">>, <<"TEXT">>)>>

RECURSIVE EntitiesPairs(_)
EntitiesPairs(kinds) ==
    IF kinds = <<>> THEN <<>> ELSE EntityPairs(Head(kinds)) \o EntitiesPairs(Tail(kinds))

BlockPairs(name, kinds) ==
    <<Pair(<<"0">>, BLOCK), Pair(<<"2">>, name)>> \o EntitiesPairs(kinds)
    \o <<Pair(<<"0">>, ENDBLK)>>

BlocksSection(m) ==
    <<Pair(<<"0">>, SECTION), Pair(<<"2">>, BLOCKS)>>
    \o BlockPairs(<<"A">>, m.a) \o BlockPairs(<<"B">>, m.b)
    \o <<Pair(<<"0">>, ENDSEC)>>

EntitiesSection(m) ==
    <<Pair(<<"0">>, SECTION), Pair(<<"2">>, ENTITIES)>> \o EntitiesPairs(m.space)
    \o <<Pair(<<"0">>, ENDSEC)>>

DrawingDoc(m, blocksFirst) ==
    Doc((IF blocksFirst THEN BlocksSection(m) \o EntitiesSection(m)
         ELSE EntitiesSection(m) \o BlocksSection(m))
        \o <<Pair(<<"0">>, <<"EOF">>)>>,
        <<LF>>, TRUE, 0)

Drawings ==
    [a : {<<>>, <<"L">>, <<"IA">>, <<"IB">>, <<"L", "IB">>},
     b : {<<"L">>, <<"IA">>, <<"IB">>, <<"IC">>, <<"T", "L">>},
     space : {<<"IA">>, <<"IB">>, <<"L", "IA">>, <<"IC", "L">>, <<"I0", "L">>, <<"IB", "IA">>}]

\* the file lists of the "text" source: one file of well-formed pairs, or one
\* drawing written twice, BLOCKS section first and ENTITIES section first
DocLists ==
    { <<d>> : d \in PairDocs }
    \cup { <<DrawingDoc(m, TRUE), DrawingDoc(m, FALSE)>> : m \in Drawings }

RenderAll(ds) == [k \in 1 .. Len(ds) |-> Render(ds[k])]

\* ---- drawings whose entities carry properties ----

AllImpls == Impls \cup {"part_002.parseDXF"}

TEXT == <<"TEXT">>

\* the tags of a position, of scale components, of an angle and of a layer name
PosPairs(pos) ==
    CASE pos = "none" -> <<>>
      [] pos = "x" -> <<Pair(<<"1", "0">>, <<"5">>)>>
      [] pos = "xyz" -> <<Pair(<<"1", "0">>, <<"5">>), Pair(<<"2", "0">>, <<"7">>),
                          Pair(<<"3", "0">>, <<"2">>)>>

ScalePairs(sc) ==
    CASE sc = "none" -> <<>>
      [] sc = "x" -> <<Pair(<<"4", "1">>, <<"2">>)>>
      [] sc = "y" -> <<Pair(<<"4", "2">>, <<"3">>)>>
      [] sc = "xz" -> <<Pair(<<"4", "1">>, <<"2">>), Pair(<<"4", "3">>, <<"4">>)>>
      [] sc = "x0" -> <<Pair(<<"4", "1">>, <<"0">>)>>

AnglePairs(angle) == IF angle = <<>> THEN <<>> ELSE <<Pair(<<"5", "0">>, angle)>>

LayerPairs(layer) == IF layer = <<>> THEN <<>> ELSE <<Pair(<<"8">>, layer)>>

\* a 3DFACE: its corners are (0,0,0), (4,0,0), (4,3,0) and a fourth one that is
\* (0,3,0), or the third one again, or not given
FacePairs(face) ==
    <<Pair(<<"0">>, FACE), Pair(<<"1", "1">>, <<"4">>),
      Pair(<<"1", "2">>, <<"4">>), Pair(<<"2", "2">>, <<"3">>)>>
    \o (CASE face = "quad" -> <<Pair(<<"2", "3">>, <<"3">>)>>
          [] face = "tri" -> <<Pair(<<"1", "3">>, <<"4">>), Pair(<<"2", "3">>, <<"3">>)>>
          [] face = "three" -> <<>>)

\* a drawing with one INSERT in model space: block A holds a LINE, a TEXT, an
\* INSERT of block B, an INSERT of an undefined block and a LINE; block B holds
\* a LINE
InsertDrawing(m) ==
    <<Pair(<<"0">>, SECTION), Pair(<<"2">>, BLOCKS)>>
    \o BlockPairs(<<"A">>, <<"L", "T", "IB", "IC", "L">>)
    \o BlockPairs(<<"B">>, <<"L">>)
    \o <<Pair(<<"0">>, ENDSEC), Pair(<<"0">>, SECTION), Pair(<<"2">>, ENTITIES),
         Pair(<<"0">>, INSERT), Pair(<<"2">>, <<"A">>)>>
    \o LayerPairs(m.layer) \o PosPairs(m.pos) \o ScalePairs(m.scale) \o AnglePairs(m.angle)
    \o <<Pair(<<"0">>, ENDSEC), Pair(<<"0">>, <<"EOF">>)>>

\* a drawing with a 3DFACE and a LINE in model space, the face on layer m.layer
\* if one is given, behind a TEXT on layer m.textLayer if m.text
FaceDrawing(m) ==
    <<Pair(<<"0">>, SECTION), Pair(<<"2">>, ENTITIES)>>
    \o (IF m.text
        THEN <<Pair(<<"0">>, TEXT), Pair(<<"8">>, m.textLayer), Pair(<<"1", "0">>, <<"9">>)>>
        ELSE <<>>)
    \o FacePairs(m.face) \o LayerPairs(m.layer)
    \o <<Pair(<<"0">>, LINE), Pair(<<"1", "1">>, <<"6">>)>>
    \o <<Pair(<<"0">>, ENDSEC), Pair(<<"0">>, <<"EOF">>)>>

DigitChars == <<"1", "2", "3", "4", "5", "6", "7", "8", "9">>

\* vertex number k of a polyline of the inputs: (k, 10 - k)
VertexPairs(k) ==
    <<Pair(<<"1", "0">>, <<DigitChars[k]>>), Pair(<<"2", "0">>, <<DigitChars[10 - k]>>)>>

RECURSIVE VerticesPairs(_)
VerticesPairs(n) == IF n = 0 THEN <<>> ELSE VerticesPairs(n - 1) \o VertexPairs(n)

FlagPairs(flag) == IF flag = <<>> THEN <<>> ELSE <<Pair(<<"7", "0">>, flag)>>

\* a drawing with an LWPOLYLINE of m.n vertices in model space, with the flags
\* m.flag in a code-70 tag, if any, before or after the vertices, and at
\* elevation 7 if m.elevated
PolyDrawing(m) ==
    <<Pair(<<"0">>, SECTION), Pair(<<"2">>, ENTITIES), Pair(<<"0">>, LWPOLYLINE)>>
    \o (IF m.elevated THEN <<Pair(<<"3", "0">>, <<"7">>)>> ELSE <<>>)
    \o (IF m.flagFirst THEN FlagPairs(m.flag) ELSE <<>>)
    \o VerticesPairs(m.n)
    \o (IF m.flagFirst THEN <<>> ELSE FlagPairs(m.flag))
    \o <<Pair(<<"0">>, ENDSEC), Pair(<<"0">>, <<"EOF">>)>>

RadiusPairs(radius) == IF radius = <<>> THEN <<>> ELSE <<Pair(<<"4", "0">>, radius)>>

EndAnglePairs(angle) == IF angle = <<>> THEN <<>> ELSE <<Pair(<<"5", "1">>, angle)>>

\* a drawing with an ARC and a CIRCLE of the same radius in model space, both
\* around (5, 7, 2) if m.centred
CurveDrawing(m) ==
    <<Pair(<<"0">>, SECTION), Pair(<<"2">>, ENTITIES), Pair(<<"0">>, ARC)>>
    \o (IF m.centred THEN PosPairs("xyz") ELSE <<>>)
    \o RadiusPairs(m.radius) \o AnglePairs(m.start) \o EndAnglePairs(m.end)
    \o <<Pair(<<"0">>, CIRCLE)>>
    \o (IF m.centred THEN PosPairs("xyz") ELSE <<>>)
    \o RadiusPairs(m.radius)
    \o <<Pair(<<"0">>, ENDSEC), Pair(<<"0">>, <<"EOF">>)>>

PolyProps ==
    [kind : {"poly"}, n : 1 .. MaxVertices, flag : {<<>>, <<"0">>, <<"1">>, <<"2">>, <<"3">>},
     flagFirst : BOOLEAN, elevated : BOOLEAN]

CurveProps ==
    [kind : {"curve"}, start : {<<>>, <<"0">>, <<"9", "0">>},
     end : {<<>>, <<"0">>, <<"9", "0">>, <<"4", "5", "0">>}, radius : {<<>>, <<"2">>},
     centred : BOOLEAN]

InsertProps ==
    [kind : {"insert"}, pos : {"none", "x", "xyz"}, scale : {"none", "x", "y", "xz", "x0"},
     angle : {<<>>, <<"9", "0">>, <<"0">>}, layer : {<<>>, <<"L">>}]

FaceProps ==
    [kind : {"face"}, face : {"quad", "tri", "three"}, layer : {<<>>, <<"L">>}, text : BOOLEAN,
     textLayer : {<<"M">>, <<"toString">>}]

\* the file of a drawing; m records how the drawing was composed
BuildDoc(m) ==
    [pairs |-> CASE m.kind = "insert" -> InsertDrawing(m)
                 [] m.kind = "face" -> FaceDrawing(m)
                 [] m.kind = "poly" -> PolyDrawing(m)
                 [] m.kind = "curve" -> CurveDrawing(m),
     eol |-> <<LF>>, trailing |-> TRUE, blankAt |-> 0, m |-> m]

\* one drawing with an INSERT, a polyline or an arc and a circle, or one
\* drawing with a face written twice, with and without the TEXT in front
BuildDocLists ==
    { <<BuildDoc(m)>> : m \in InsertProps \cup PolyProps \cup CurveProps }
    \cup { <<BuildDoc(m), BuildDoc([m EXCEPT !.text = FALSE])>> :
             m \in {f \in FaceProps : f.text} }

\* ---- files of arbitrary pairs ----

\* pairs of any kind: structure, an entity and a property, and pairs whose code
\* line is no integer or is blank
AnyPairs ==
    { Pair(<<"0">>, SECTION), Pair(<<" ", "2">>, ENTITIES), Pair(<<"0">>, LINE),
      Pair(<<"1", "0">>, <<"5">>), Pair(<<"x">>, LINE), Pair(<<>>, ENDBLK) }

\* files of up to MaxPassPairs such pairs; the empty file is one of them
PassDocs ==
    { Doc(ps, eol, tr, 0) :
        ps \in SeqsUpTo(AnyPairs, MaxPassPairs), eol \in Terminators, tr \in BOOLEAN }

\* ---- files parsed one after the other ----

\* files that end with a section, a block or an entity open, a file without
\* any section, and a whole drawing
RepeatKinds == {"openblock", "openentities", "bare", "named", "drawing"}

RepeatPairs(kind) ==
    CASE kind = "openblock" ->
            <<Pair(<<"0">>, SECTION), Pair(<<"2">>, BLOCKS), Pair(<<"0">>, BLOCK),
              Pair(<<"2">>, <<"A">>), Pair(<<"0">>, LINE), Pair(<<"1", "0">>, <<"5">>)>>
      [] kind = "openentities" ->
            <<Pair(<<"0">>, SECTION), Pair(<<"2">>, ENTITIES), Pair(<<"0">>, LINE),
              Pair(<<"0">>, INSERT), Pair(<<"2">>, <<"A">>)>>
      [] kind = "bare" ->
            <<Pair(<<"0">>, LINE), Pair(<<"1", "0">>, <<"5">>), Pair(<<"0">>, INSERT),
              Pair(<<"2">>, <<"A">>)>>
      [] kind = "named" ->
            <<Pair(<<"0">>, BLOCK), Pair(<<"2">>, <<"B">>), Pair(<<"0">>, LINE),
              Pair(<<"0">>, ENDBLK), Pair(<<"2">>, ENTITIES), Pair(<<"0">>, INSERT),
              Pair(<<"2">>, <<"B">>)>>
      [] kind = "drawing" ->
            <<Pair(<<"0">>, SECTION), Pair(<<"2">>, BLOCKS)>>
            \o BlockPairs(<<"A">>, <<"L">>)
            \o <<Pair(<<"0">>, ENDSEC), Pair(<<"0">>, SECTION), Pair(<<"2">>, ENTITIES)>>
            \o EntitiesPairs(<<"IA", "L">>)
            \o <<Pair(<<"0">>, ENDSEC), Pair(<<"0">>, <<"EOF">>)>>

RepeatDoc(kind) ==
    [pairs |-> RepeatPairs(kind), eol |-> <<LF>>, trailing |-> TRUE, blankAt |-> 0,
     m |-> [kind |-> kind]]

\* a file, any file, and the first file again
RepeatDocLists ==
    { <<RepeatDoc(a), RepeatDoc(b), RepeatDoc(a)>> : a \in RepeatKinds, b \in RepeatKinds }

\* the files of a batch, by kind
FileKinds == {"empty", "short", "binary", "drawing", "nogeometry", "protokeys"}

FilePairs(kind) ==
    CASE kind = "short" -> <<Pair(<<"0">>, <<"EOF">>)>>
      [] kind = "drawing" ->
            <<Pair(<<"0">>, SECTION), Pair(<<"2">>, BLOCKS)>>
            \o BlockPairs(<<"A">>, <<"L">>)
            \o <<Pair(<<"0">>, ENDSEC), Pair(<<"0">>, SECTION), Pair(<<"2">>, ENTITIES)>>
            \o EntitiesPairs(<<"IA", "L">>)
            \o <<Pair(<<"0">>, ENDSEC), Pair(<<"0">>, <<"EOF">>)>>
      [] kind = "nogeometry" ->
            <<Pair(<<"0">>, SECTION), Pair(<<"2">>, ENTITIES), Pair(<<"0">>, TEXT),
              Pair(<<"0">>, ENDSEC), Pair(<<"0">>, <<"EOF">>)>>
      [] kind = "protokeys" ->
            <<Pair(<<"0">>, SECTION), Pair(<<"2">>, ENTITIES),
              Pair(<<"0">>, INSERT), Pair(<<"2">>, <<"constructor">>),
              Pair(<<"0">>, LINE), Pair(<<"8">>, <<"constructor">>),
              Pair(<<"0">>, ENDSEC), Pair(<<"0">>, <<"EOF">>)>>

\* the content of a file: nothing, an ASCII file, or the binary marker, CR LF
\* and binary tags
FileOfKind(kind) ==
    CASE kind = "empty" -> <<>>
      [] kind = "binary" -> <<BinaryMarker, CR, LF, "<binary tags>">>
      [] OTHER -> Render(Doc(FilePairs(kind), <<LF>>, TRUE, 0))

Batches == SeqsUpTo(FileKinds, MaxBatch) \ {<<>>}

\* the state of a load: kinds is history (how the batch was composed), k the
\* index of the file the loop is at, parsed and failed are history (the files
\* handed to the parser, the files whose parse threw), scene the groups added
\* to the scene
NewLoad(loader, kinds) ==
    [loader |-> loader, kinds |-> kinds, k |-> 1, phase |-> "loop", scene |-> <<>>,
     loadedDXFs |-> <<>>, totalObjects |-> 0, error |-> "", parsed |-> {}, failed |-> {},
     gen |-> 1, pending |-> <<>>, tree |-> <<>>, map |-> <<>>]

\* the id of file k of a list: auto-<k>
FileId(k) == [prefix |-> "auto-", n |-> k]

\* the group of file k as the loader adds it to the scene: group.name = file.id;
\* gen is history (the load that made it)
SceneGroup(l, k, g) == [file |-> k, group |-> g, name |-> FileId(k), gen |-> l.gen]

\* the entry of file k in newTreeData (tree of parseDXF), or its fState in
\* newFileStates ({ ...file, loaded: true, visible: true, layers })
FileNode(l, k) ==
    IF l.loader = "handleImport"
    THEN [file |-> k, gen |-> l.gen, loaded |-> TRUE]
    ELSE [file |-> k, gen |-> l.gen]

\* objectsMapRef.current.set(file.id, group)
MapSet(m, entry) ==
    SelectSeq(m, LAMBDA x : x.name # entry.name) \o <<entry>>

\* what a load leaves of the scene before its loop: loadAllDXFFiles removes the
\* children whose name starts with auto-, manual- (or layer_), clearScene the
\* groups of objectsMapRef
ClearPrevious(l) ==
    IF l.loader = "handleImport"
    THEN SelectSeq(l.scene, LAMBDA x : \A j \in 1 .. Len(l.map) : l.map[j] # x)
    ELSE SelectSeq(l.scene, LAMBDA x : x.name.prefix \notin {"auto-", "manual-", "layer_"})

-----------------------------------------------------------------------------
(* Actions *)

Init ==
    /\ impl \in Impls
    /\ \/ src = "any" /\ docs = <<>>
       \/ src = "text" /\ docs \in DocLists
    /\ files = RenderAll(docs)
    /\ call = 0
    /\ pc = "idle"
    /\ lines = <<>>
    /\ i = 0
    /\ section = Null
    /\ currentBlockName = Null
    /\ currentBlockEntities = <<>>
    /\ currentEntity = NoEntity
    /\ entities = <<>>
    /\ blocks = <<>>
    /\ stack = <<>>
    /\ group = <<>>
    /\ groups = <<>>
    /\ tags = <<>>
    /\ last = NoTag
    /\ blockAt = 0
    /\ blockSrc = <<>>
    /\ blk = NoBlk
    /\ closed = NoClosed
    /\ maxDepth = 0
    /\ layerGroups = <<>>
    /\ decoded = <<>>
    /\ ui = NoUi
    /\ load = NoLoad

\* the locals before any call
SetLocals0 ==
    /\ section = Null
    /\ currentBlockName = Null
    /\ currentBlockEntities = <<>>
    /\ currentEntity = NoEntity
    /\ entities = <<>>
    /\ blocks = <<>>

SetLocals(d) ==
    /\ section' = d.section
    /\ currentBlockName' = d.currentBlockName
    /\ currentBlockEntities' = d.currentBlockEntities
    /\ currentEntity' = d.currentEntity
    /\ entities' = d.entities
    /\ blocks' = d.blocks

\* a call of parseDXF / parseAndBuildDXF: split the content, fresh locals
Invoke ==
    /\ \/ src = "any" /\ pc = "idle" /\ lines' = <<>>
       \/ src = "text" /\ pc \in {"idle", "done"} /\ call < Len(files)
          /\ lines' = SplitLines(files[call + 1])
    /\ call' = call + 1
    /\ pc' = "pass1"
    /\ i' = 0
    /\ SetLocals(InitialLocals)
    /\ stack' = <<>>
    /\ group' = <<>>
    /\ tags' = <<>>
    /\ last' = NoTag
    /\ blockAt' = 0
    /\ blockSrc' = <<>>
    /\ blk' = NoBlk
    /\ closed' = NoClosed
    /\ maxDepth' = 0
    /\ layerGroups' = <<>>
    /\ UNCHANGED <<impl, src, docs, files, decoded, ui, groups, load>>

\* one iteration of the pair loop on the lines codeLine, valueLine
Iterate(codeLine, valueLine) ==
    LET t == TagOf(impl, codeLine, valueLine)
        d == Step(impl, Locals, codeLine, valueLine, Pos, blockAt)
        isBlock == IsCode0(t, BLOCK)
        isEndblk == IsCode0(t, ENDBLK)
    IN /\ SetLocals(d)
       /\ i' = NextIndex(i)
       /\ last' = t
       /\ blockAt' = IF isBlock THEN Pos ELSE IF isEndblk THEN 0 ELSE blockAt
       /\ blk' = IF isBlock
                 THEN [seen |-> <<>>, clean |-> d.section = BLOCKS, nameFirst |-> TRUE]
                 ELSE IF isEndblk \/ blockAt = 0 THEN NoBlk
                 ELSE [seen |-> IF IsTypeTag(t) THEN Append(blk.seen, Pos) ELSE blk.seen,
                       clean |-> blk.clean /\ d.section = BLOCKS,
                       nameFirst |-> blk.nameFirst
                                     /\ (IsTypeTag(t) => Truthy(currentBlockName))]
       /\ closed' = IF isEndblk
                    THEN [name |-> currentBlockName, seen |-> blk.seen, clean |-> blk.clean,
                          nameFirst |-> blk.nameFirst, at |-> blockAt]
                    ELSE NoClosed
       /\ blockSrc' = IF isEndblk /\ Truthy(currentBlockName)
                      THEN StoreBlock(blockSrc, currentBlockName, blockAt)
                      ELSE blockSrc

\* pass 1 on a file whose lines are not fixed in advance
ReadPair ==
    /\ pc = "pass1"
    /\ src = "any"
    /\ i < 2 * MaxPairs
    /\ \E p \in Pairs : Iterate(p[1], p[2])
    /\ UNCHANGED <<impl, src, docs, files, decoded, ui, call, pc, lines, stack, group, groups, tags, maxDepth,
                   layerGroups, load>>

\* pass 1 on the lines of a file: for (i = 0; i < lines.length - 1; i += 2)
ScanPair ==
    /\ pc = "pass1"
    /\ src = "text"
    /\ LoopContinues(lines, i)
    /\ Iterate(lines[i + 1], lines[i + 2])
    /\ LET t == TagOf(impl, lines[i + 1], lines[i + 2])
       IN tags' = IF t.skipped THEN tags
                  ELSE Append(tags, [code |-> t.code.val, value |-> t.value])
    /\ UNCHANGED <<impl, src, docs, files, decoded, ui, call, pc, lines, stack, group, groups, maxDepth,
                   layerGroups, load>>

\* the loop ends; the final commitEntity flushes the entity in progress
EndOfStream ==
    /\ pc = "pass1"
    /\ src = "any" \/ ~LoopContinues(lines, i)
    /\ SetLocals(FinalCommit(Locals))
    /\ pc' = "pass2"
    /\ stack' = <<Frame(NoEntity, RenderedEntities(FinalCommit(Locals)), 0)>>
    /\ last' = NoTag
    /\ closed' = NoClosed
    /\ decoded' = Append(decoded, [entities |-> FinalCommit(Locals).entities,
                                   blocks |-> FinalCommit(Locals).blocks])
    /\ UNCHANGED <<impl, src, docs, files, ui, call, lines, i, group, groups, tags,
                   blockAt, blockSrc, blk, maxDepth, layerGroups, load>>

-----------------------------------------------------------------------------
(* Pass 2: the actions *)

\* createObject(e) for the next entity of the innermost forEach: a leaf is built
\* and added at once, an INSERT that resolves starts the forEach over its block
CreateObject ==
    /\ pc = "pass2"
    /\ Top.k <= Len(Top.ents)
    /\ ~CreateThrows(Top, Top.ents[Top.k])
    /\ LET f == Top
           e == f.ents[f.k]
       IN /\ IF TooDeep(impl, f.level)
             THEN /\ stack' = ReplaceTop(Deliver(f, NoObject))
                  /\ UNCHANGED maxDepth
             ELSE /\ maxDepth' = IF f.level > maxDepth THEN f.level ELSE maxDepth
                  /\ IF Resolves(e, blocks)
                     THEN /\ Len(stack) < StackLimit
                          /\ stack' = Append(stack, Frame(e, blocks[e.blockName], f.level + 1))
                     ELSE stack' = ReplaceTop(Deliver(f, CreateLeaf(e)))
          /\ layerGroups' =
                IF Layered /\ Len(stack) = 1
                THEN LET lg == EnsureLayer(layerGroups, LayerName(e))
                     IN IF Resolves(e, blocks) THEN lg
                        ELSE AddToLayer(lg, LayerName(e), CreateLeaf(e))
                ELSE layerGroups
    /\ UNCHANGED <<impl, src, docs, files, decoded, ui, call, pc, lines, i, decoderVars, group, groups,
                   tags, last, histVars, load>>

\* the forEach over a block ends: createObject returns the block's group to its caller
ReturnGroup ==
    /\ pc = "pass2"
    /\ Len(stack) > 1
    /\ Top.k > Len(Top.ents)
    /\ ~ReturnThrows
    /\ LET parent == stack[Len(stack) - 1]
           obj == Object("Group", Top.e, Top.kids)
       IN /\ stack' = [Pop EXCEPT ![Len(stack) - 1] = Deliver(parent, obj)]
          /\ layerGroups' = IF Layered /\ Len(stack) = 2
                            THEN AddToLayer(layerGroups, LayerName(Top.e), obj)
                            ELSE layerGroups
    /\ UNCHANGED <<impl, src, docs, files, decoded, ui, call, pc, lines, i, decoderVars, group, groups,
                   tags, last, histVars, maxDepth, load>>

\* the call stack is exhausted: the call of createObject for a nested INSERT throws
\* RangeError inside the try block of the createObject that makes it, whose catch
\* returns null to its own caller
StackOverflow ==
    /\ pc = "pass2"
    /\ impl # "parseAndBuildDXF"
    /\ Top.k <= Len(Top.ents)
    /\ Resolves(Top.ents[Top.k], blocks)
    /\ Len(stack) >= StackLimit
    /\ stack' = [Pop EXCEPT ![Len(stack) - 1] = Deliver(stack[Len(stack) - 1], NoObject)]
    /\ UNCHANGED <<impl, src, docs, files, decoded, ui, call, pc, lines, i, decoderVars, group, groups,
                   tags, last, histVars, maxDepth, layerGroups, load>>

\* the model-space forEach ends: the call returns its group
ReturnParse ==
    /\ pc = "pass2"
    /\ Len(stack) = 1
    /\ Top.k > Len(Top.ents)
    /\ group' = IF Layered THEN LayerObjects(layerGroups) ELSE Top.kids
    /\ groups' = Append(groups, group')
    /\ stack' = <<>>
    /\ pc' = "done"
    /\ UNCHANGED <<impl, src, docs, files, decoded, ui, call, lines, i, decoderVars, tags, last,
                   histVars, maxDepth, layerGroups, load>>

\* the parse calls on drawings whose entities carry properties
InitBuild ==
    /\ impl \in AllImpls
    /\ src = "text"
    /\ docs \in BuildDocLists
    /\ files = RenderAll(docs)
    /\ call = 0
    /\ pc = "idle"
    /\ lines = <<>>
    /\ i = 0
    /\ SetLocals0
    /\ stack = <<>>
    /\ group = <<>>
    /\ groups = <<>>
    /\ tags = <<>>
    /\ last = NoTag
    /\ blockAt = 0
    /\ blockSrc = <<>>
    /\ blk = NoBlk
    /\ closed = NoClosed
    /\ maxDepth = 0
    /\ layerGroups = <<>>
    /\ decoded = <<>>
    /\ ui = NoUi
    /\ load = NoLoad

-----------------------------------------------------------------------------
(* Loading a batch of files *)

InitLoad ==
    /\ \E loader \in Loaders, kinds \in Batches :
          /\ load = NewLoad(loader, kinds)
          /\ impl = ParserOf(loader)
          /\ files = [k \in 1 .. Len(kinds) |-> FileOfKind(kinds[k])]
    /\ src = "text"
    /\ docs = <<>>
    /\ call = 0
    /\ pc = "idle"
    /\ lines = <<>>
    /\ i = 0
    /\ SetLocals0
    /\ stack = <<>>
    /\ group = <<>>
    /\ groups = <<>>
    /\ tags = <<>>
    /\ last = NoTag
    /\ blockAt = 0
    /\ blockSrc = <<>>
    /\ blk = NoBlk
    /\ closed = NoClosed
    /\ maxDepth = 0
    /\ layerGroups = <<>>
    /\ decoded = <<>>
    /\ ui = NoUi

parseVars == <<call, pc, lines, i, decoderVars, stack, group, groups, tags, last,
               histVars, maxDepth, layerGroups>>

\* the loop passes over a file its tests reject: continue
LoadSkip ==
    /\ load.loader # "none" /\ load.phase = "loop"
    /\ load.k <= Len(files)
    /\ Rejects(load.loader, files[load.k])
    /\ load' = [load EXCEPT !.k = @ + 1,
                            !.pending = IF load.loader = "handleImport"
                                        THEN Append(@, FileNode(load, load.k)) ELSE @]
    /\ UNCHANGED <<impl, src, docs, files, decoded, ui, parseVars>>

\* the loop hands a file to the parser
LoadParse ==
    /\ load.loader # "none" /\ load.phase = "loop"
    /\ load.k <= Len(files)
    /\ ~Rejects(load.loader, files[load.k])
    /\ load' = [load EXCEPT !.phase = "parsing", !.parsed = @ \cup {load.k}]
    /\ lines' = SplitLines(files[load.k])
    /\ call' = call + 1
    /\ pc' = "pass1"
    /\ i' = 0
    /\ SetLocals(InitialLocals)
    /\ stack' = <<>>
    /\ group' = <<>>
    /\ tags' = <<>>
    /\ last' = NoTag
    /\ blockAt' = 0
    /\ blockSrc' = <<>>
    /\ blk' = NoBlk
    /\ closed' = NoClosed
    /\ maxDepth' = 0
    /\ layerGroups' = <<>>
    /\ UNCHANGED <<impl, src, docs, files, decoded, ui, groups>>

\* pass 2 ends in a TypeError no try block of the parser catches
ThrowTypeError ==
    /\ pc = "pass2"
    /\ \/ Top.k <= Len(Top.ents) /\ CreateThrows(Top, Top.ents[Top.k])
       \/ Len(stack) > 1 /\ Top.k > Len(Top.ents) /\ ReturnThrows
    /\ pc' = "thrown"
    /\ stack' = <<>>
    /\ UNCHANGED <<impl, src, docs, files, decoded, ui, call, lines, i, decoderVars, group, groups, tags,
                   last, histVars, maxDepth, layerGroups, load>>

\* the parser has returned: the group is added to the scene and the file recorded
LoadAdd ==
    /\ load.phase = "parsing" /\ pc = "done"
    /\ load' = [load EXCEPT !.scene = Append(@, SceneGroup(load, load.k, group)),
                            !.map = IF load.loader = "handleImport"
                                    THEN MapSet(@, SceneGroup(load, load.k, group)) ELSE @,
                            !.pending = Append(@, FileNode(load, load.k)),
                            !.loadedDXFs = Append(@, load.k),
                            !.totalObjects = IF load.loader = "loadAllDXFFiles:632"
                                             THEN @ + Len(group) ELSE @,
                            !.k = @ + 1,
                            !.phase = "loop"]
    /\ pc' = "idle"
    /\ UNCHANGED <<impl, src, docs, files, decoded, ui, call, lines, i, decoderVars, stack, group, groups,
                   tags, last, histVars, maxDepth, layerGroups>>

\* the parser has thrown: handleImport catches inside its loop and goes on with
\* the next file, loadAllDXFFiles catches outside its loop and sets the error
LoadCatch ==
    /\ load.phase = "parsing" /\ pc = "thrown"
    /\ load' = IF load.loader = "handleImport"
               THEN [load EXCEPT !.failed = @ \cup {load.k}, !.k = @ + 1, !.phase = "loop",
                                 !.pending = Append(@, FileNode(load, load.k))]
               ELSE [load EXCEPT !.failed = @ \cup {load.k},
                                 !.error = FailureMessage(load.loader),
                                 !.phase = "finished"]
    /\ pc' = "idle"
    /\ UNCHANGED <<impl, src, docs, files, decoded, ui, call, lines, i, decoderVars, stack, group, groups,
                   tags, last, histVars, maxDepth, layerGroups>>

\* the loop is over: the loader reports what it found
LoadEnd ==
    /\ load.loader # "none" /\ load.phase = "loop"
    /\ load.k > Len(files)
    /\ load' = [load EXCEPT
                  !.phase = "finished",
                  !.tree = load.pending,
                  !.error =
                      CASE load.loader = "loadAllDXFFiles:632" ->
                              IF load.totalObjects = 0
                              THEN NoViewableMessage(load.loader) ELSE @
                        [] load.loader = "loadAllDXFFiles:1777" ->
                              IF Len(load.loadedDXFs) > 0
                              THEN @ ELSE NoViewableMessage(load.loader)
                        [] OTHER -> @]
    /\ UNCHANGED <<impl, src, docs, files, decoded, ui, parseVars>>

NextLoad == LoadSkip \/ LoadParse \/ ScanPair \/ EndOfStream \/ CreateObject \/ ReturnGroup
            \/ ReturnParse \/ ThrowTypeError \/ LoadAdd \/ LoadCatch \/ LoadEnd

SpecLoad == InitLoad /\ [][NextLoad]_vars

-----------------------------------------------------------------------------
(* Loading one list of files after another *)

\* the loaders that keep a file tree
TreeLoaders == {"loadAllDXFFiles:1777", "handleImport"}

InitReload == InitLoad /\ load.loader \in TreeLoaders

\* a load has ended and the loader is called with another list: the groups of
\* the earlier load are removed from the scene (clearScene also empties
\* objectsMapRef and the file states), then the loop starts
Reload ==
    /\ load.loader # "none" /\ load.phase = "finished"
    /\ load.gen < MaxLoads
    /\ \E kinds \in Batches :
          /\ files' = [k \in 1 .. Len(kinds) |-> FileOfKind(kinds[k])]
          /\ load' = [NewLoad(load.loader, kinds) EXCEPT
                        !.gen = load.gen + 1,
                        !.scene = ClearPrevious(load),
                        !.tree = IF load.loader = "handleImport" THEN <<>> ELSE load.tree]
    /\ UNCHANGED <<impl, src, docs, decoded, ui, parseVars>>

NextReload == NextLoad \/ Reload

SpecReload == InitReload /\ [][NextReload]_vars

-----------------------------------------------------------------------------
(* The decode pass on files of arbitrary pairs *)

InitPass ==
    /\ impl \in AllImpls
    /\ src = "text"
    /\ \E d \in PassDocs : docs = <<d>>
    /\ files = RenderAll(docs)
    /\ call = 0
    /\ pc = "idle"
    /\ lines = <<>>
    /\ i = 0
    /\ SetLocals0
    /\ stack = <<>>
    /\ group = <<>>
    /\ groups = <<>>
    /\ tags = <<>>
    /\ last = NoTag
    /\ blockAt = 0
    /\ blockSrc = <<>>
    /\ blk = NoBlk
    /\ closed = NoClosed
    /\ maxDepth = 0
    /\ layerGroups = <<>>
    /\ decoded = <<>>
    /\ ui = NoUi
    /\ load = NoLoad

NextPass == Invoke \/ ScanPair \/ EndOfStream \/ CreateObject \/ ReturnParse

\* the conditions under which the loop makes an iteration and leaves
ScanPairEnabled == pc = "pass1" /\ src = "text" /\ LoopContinues(lines, i)
EndOfStreamEnabled == pc = "pass1" /\ (src = "any" \/ ~LoopContinues(lines, i))

\* the statements of a call run one after the other: an iteration that can be
\* made is made, and so is the step out of the loop.  The two conjuncts are
\* WF_vars(ScanPair) and WF_vars(EndOfStream) with ENABLED written out.
SpecPass ==
    InitPass /\ [][NextPass]_vars
    /\ ([]<>(~ScanPairEnabled) \/ []<><<ScanPair>>_vars)
    /\ ([]<>(~EndOfStreamEnabled) \/ []<><<EndOfStream>>_vars)

-----------------------------------------------------------------------------
(* Parse calls made one after the other *)

InitRepeat ==
    /\ impl \in AllImpls
    /\ src = "text"
    /\ docs \in RepeatDocLists
    /\ files = RenderAll(docs)
    /\ call = 0
    /\ pc = "idle"
    /\ lines = <<>>
    /\ i = 0
    /\ SetLocals0
    /\ stack = <<>>
    /\ group = <<>>
    /\ groups = <<>>
    /\ tags = <<>>
    /\ last = NoTag
    /\ blockAt = 0
    /\ blockSrc = <<>>
    /\ blk = NoBlk
    /\ closed = NoClosed
    /\ maxDepth = 0
    /\ layerGroups = <<>>
    /\ decoded = <<>>
    /\ ui = NoUi
    /\ load = NoLoad

NextRepeat == Invoke \/ ScanPair \/ EndOfStream \/ CreateObject \/ ReturnGroup \/ ReturnParse

SpecRepeat == InitRepeat /\ [][NextRepeat]_vars

NextBuild == Invoke \/ ScanPair \/ EndOfStream \/ CreateObject \/ ReturnGroup \/ ReturnParse

SpecBuild == InitBuild /\ [][NextBuild]_vars

Next == Invoke \/ ReadPair \/ ScanPair \/ EndOfStream \/ CreateObject \/ ReturnGroup
        \/ StackOverflow \/ ReturnParse

Spec == Init /\ [][Next]_vars

-----------------------------------------------------------------------------
(* Properties *)

Range(q) == {q[k] : k \in 1 .. Len(q)}

\* the entities held by the model-space list, the open block's buffer and the
\* block definitions
InDefinitions == UNION {Range(blocks[n]) : n \in DOMAIN blocks}
Stored == Range(entities) \cup Range(currentBlockEntities) \cup InDefinitions

\* the positions of the type tags of a list of entities
Positions(q) == [k \in 1 .. Len(q) |-> q[k].at]

C2_BlockHoldsItsEntities ==
    (impl = "parseDXF" /\ pc = "pass1" /\ Truthy(closed.name)
        /\ closed.clean /\ closed.nameFirst)
    => /\ HasBlock(blocks, closed.name)
       /\ Positions(blocks[closed.name]) = closed.seen

\* C2 witness: ENDBLK has just closed a named block of two entities.
C2_Witness ==
    /\ impl = "parseDXF" /\ pc = "pass1" /\ Truthy(closed.name)
    /\ closed.clean /\ closed.nameFirst
    /\ Len(closed.seen) = 2
    /\ HasBlock(blocks, closed.name)

\* C3: during the decode pass the block definitions change only at an ENDBLK tag
\* read while a block with a non-empty name is open, and then only the key of
\* that name is set; an ENDBLK without an open block and the end of the stream
\* leave the definitions unchanged.
C3_KeyOnlyAtEndblk ==
    [][(pc = "pass1" /\ blocks' # blocks)
        => /\ pc' = "pass1"
           /\ IsCode0(last', ENDBLK)
           /\ Truthy(currentBlockName)
           /\ DOMAIN blocks' = (DOMAIN blocks) \cup {currentBlockName}
           /\ \A n \in (DOMAIN blocks) \ {currentBlockName} : blocks'[n] = blocks[n]]_vars

\* C3 witness: the stream has ended inside a named block holding an entity, and
\* the definitions have no key for it.
C3_Witness ==
    /\ pc = "pass2"
    /\ Truthy(currentBlockName)
    /\ currentBlockEntities # <<>>
    /\ ~HasBlock(blocks, currentBlockName)

\* C4: geometry construction never works deeper than the fixed nesting bound:
\* no createObject activation builds or recurses at a level above MaxLevel.
C4_DepthBounded == maxDepth <= MaxLevel

\* the objects of a list of objects, at every depth
RECURSIVE ObjectsIn(_)
ObjectsIn(q) ==
    Range(q) \cup UNION {ObjectsIn(o.children) : o \in Range(q)}

\* an object without the position of the entity it was made for
RECURSIVE Shape(_)
Shape(o) ==
    [kind |-> o.kind, x |-> o.x, y |-> o.y, z |-> o.z, scale |-> o.scale,
     rotation |-> o.rotation, points |-> o.points, path |-> o.path, layer |-> o.layer,
     name |-> o.name,
     children |-> [k \in 1 .. Len(o.children) |-> Shape(o.children[k])]]

Shapes(q) == [k \in 1 .. Len(q) |-> Shape(q[k])]

\* C5: a drawing written with its ENTITIES section before its BLOCKS section
\* yields the same group as the same drawing written with the BLOCKS section
\* first.
C5_OrderOfSectionsIrrelevant ==
    (src = "text" /\ Len(docs) = 2 /\ call = 2 /\ pc = "done")
    => Shapes(groups[1]) = Shapes(groups[2])

\* C5 witness: the second file, whose INSERTs precede the blocks, has returned a
\* group holding a non-empty block instance made for an INSERT read before the
\* BLOCK tag of block A.
C5_Witness ==
    /\ src = "text" /\ Len(docs) = 2 /\ call = 2 /\ pc = "done"
    /\ \E o \in Range(groups[2]) :
          /\ o.kind = "Group" /\ o.children # <<>>
          /\ o.of < blockSrc[<<"A">>]

\* an INSERT without a block name, or whose block name is no key of the definitions
Dangling(e) ==
    e.type = INSERT /\ (~Truthy(e.blockName) \/ e.blockName \notin DOMAIN blocks)

ExpectedTags(im, pairs) ==
    [k \in 1 .. Len(pairs) |->
        [code |-> CodeOf(im, pairs[k][1]).val, value |-> Trim(pairs[k][2])]]

\* C7: a file of well-formed pairs with one blank line inserted between two of
\* them yields the tags of the pairs, as it does without the blank line.
C7_BlankLineIgnored ==
    (src = "text" /\ pc = "pass2" /\ docs[call].blankAt > 0)
    => tags = ExpectedTags(impl, docs[call].pairs)

\* C8: a file of N well-formed pairs and nothing else yields exactly N tags, tag
\* k made of lines 2k and 2k+1, with and without a final line terminator.
C8_OneTagPerPair ==
    (src = "text" /\ pc = "pass2" /\ docs[call].blankAt = 0)
    => /\ Len(tags) = Len(docs[call].pairs)
       /\ tags = ExpectedTags(impl, docs[call].pairs)

\* C8 witness: a file of at least two pairs, CR LF terminated, without a
\* terminator after its last line, has been read to its end.
C8_Witness ==
    /\ src = "text" /\ pc = "pass2" /\ docs[call].blankAt = 0
    /\ ~docs[call].trailing /\ docs[call].eol = <<CR, LF>>
    /\ Len(tags) >= 2

\* C9: an iteration on a pair whose code line is no integer changes nothing of
\* the decoder state and moves on to the next pair.
C9_NonIntegerCodeSkipped ==
    [][(pc = "pass1" /\ pc' = "pass1" /\ last'.code.nan)
        => (UNCHANGED decoderVars /\ i' = i + 2)]_vars

\* C9 witness: a pair with a non-integer code line was just passed over while an
\* entity was in progress.
C9_Witness ==
    /\ pc = "pass1" /\ last # NoTag /\ last.code.nan
    /\ currentEntity # NoEntity

\* C10: every entity is held by one bucket only, the one that the section and
\* the open block selected when its type tag was read, and while an entity is in
\* progress the section and the open block stay what they were at its type tag.
C10_BucketFixedAtTypeTag ==
    /\ \A e \in Range(entities) : e.sec0 = ENTITIES
    /\ \A e \in Range(currentBlockEntities) : e.sec0 = BLOCKS /\ e.blk0 = blockAt
    /\ \A n \in DOMAIN blocks :
          \A e \in Range(blocks[n]) : e.sec0 = BLOCKS /\ e.blk0 = blockSrc[n]
    /\ currentEntity # NoEntity
          => (section = currentEntity.sec0 /\ blockAt = currentEntity.blk0)

-----------------------------------------------------------------------------
(* Properties of the entities' fields and of the objects built from them *)

\* how the file of the current parse call was composed
M == docs[call].m

\* the objects built for the model-space entities: the children of the returned
\* group, or of its layer groups
TopPrimitives(g) ==
    UNION { IF o.name = Null THEN {o} ELSE Range(o.children) : o \in Range(g) }

\* the entities a list of objects was made for
Origins(q) == [k \in 1 .. Len(q) |-> q[k].of]

\* the tags of the entity whose type tag is pair number at: the pairs after it,
\* up to the next pair of code 0
RECURSIVE EntityTagsFrom(_, _)
EntityTagsFrom(pairs, k) ==
    IF k > Len(pairs) \/ Trim(pairs[k][1]) = <<"0">> THEN <<>>
    ELSE <<pairs[k]>> \o EntityTagsFrom(pairs, k + 1)

EntityTags(pairs, at) == EntityTagsFrom(pairs, at + 1)

IsLayerTag(pair) == Trim(pair[1]) = <<"8">>

LayerTags(pairs, at) == SelectSeq(EntityTags(pairs, at), IsLayerTag)

\* C11: a 3DFACE with 4 distinct corner points is built as a geometry of 6
\* points (2 triangles), and a 3DFACE whose 4th point equals its 3rd as a
\* geometry of 3 points (1 triangle).
C11_FaceTriangulation ==
    (src = "text" /\ pc = "done" /\ M.kind = "face")
    => LET meshes == {o \in TopPrimitives(group) : o.kind = "Mesh"}
       IN /\ meshes # {}
          /\ \A o \in meshes :
                /\ M.face = "quad" => o.points = 6
                /\ M.face = "tri" => o.points = 3

\* the angle a code-50 tag of the drawing carries, in degrees (0: no such tag)
ExpectedAngle == IF M.angle = <<>> THEN 0 ELSE DecimalValue(M.angle)

\* the groups built for the INSERTs of model space
InsertGroups == {o \in TopPrimitives(group) : o.kind = "Group"}

\* C12: the group of an INSERT that carries the angle r in a code-50 tag is
\* rotated by r * PI / 180 about Z and not about X or Y, and the group of an
\* INSERT without such a tag is not rotated.
C12_InsertRotation ==
    (src = "text" /\ pc = "done" /\ M.kind = "insert")
    => /\ InsertGroups # {}
       /\ \A o \in InsertGroups : o.rotation = [x |-> 0, y |-> 0, z |-> ExpectedAngle]

\* the position and the scale the tags of the drawing's INSERT give
ExpectedPosition ==
    CASE M.pos = "none" -> [x |-> 0, y |-> 0, z |-> 0]
      [] M.pos = "x" -> [x |-> 5, y |-> 0, z |-> 0]
      [] M.pos = "xyz" -> [x |-> 5, y |-> 7, z |-> 2]

ExpectedScale ==
    CASE M.scale = "none" -> [x |-> 1, y |-> 1, z |-> 1]
      [] M.scale = "x" -> [x |-> 2, y |-> 1, z |-> 1]
      [] M.scale = "y" -> [x |-> 1, y |-> 3, z |-> 1]
      [] M.scale = "xz" -> [x |-> 2, y |-> 1, z |-> 4]
      [] M.scale = "x0" -> [x |-> 0, y |-> 1, z |-> 1]

\* does a block entity yield geometry?
Yields(e) == e.type \in {LINE, FACE} \/ (e.type = INSERT /\ Resolves(e, blocks))

\* C13: in parseDXF the group of a resolving INSERT is positioned at the
\* INSERT's (x, y, z), an absent coordinate counting as 0, is scaled along each
\* axis by the value of code 41, 42 or 43, an axis not given counting as 1, and
\* holds one child for each entity of the block that yields geometry, in the
\* order of the block definition.
C13_InsertTransform ==
    (src = "text" /\ pc = "done" /\ M.kind = "insert" /\ impl # "parseAndBuildDXF")
    => /\ InsertGroups # {}
       /\ \A o \in InsertGroups :
             /\ [x |-> o.x, y |-> o.y, z |-> o.z] = ExpectedPosition
             /\ o.scale = [a \in {"x", "y", "z"} |-> Num(ExpectedScale[a])]
             /\ Origins(o.children) = Positions(SelectSeq(blocks[<<"A">>], Yields))

\* C13 witness: parseDXF has returned the group of an INSERT given a position,
\* a scale along X only, whose block has entities that yield no geometry
\* between entities that do.
C13_Witness ==
    /\ src = "text" /\ pc = "done" /\ M.kind = "insert" /\ impl = "parseDXF"
    /\ M.scale = "x" /\ M.pos = "xyz"
    /\ \E o \in InsertGroups :
          /\ o.scale.x = Num(2) /\ o.scale.y = Num(1)
          /\ Len(o.children) = 3
          /\ Len(blocks[<<"A">>]) = 5

\* the layer an object built for a model-space entity is grouped under: the
\* layer group it is a child of, or the layer it is tagged with
LayerOf(o) ==
    IF Layered
    THEN LET l == CHOOSE g \in Range(group) : o \in Range(g.children) IN Tail(l.name)
    ELSE o.layer

\* C14: every object built for a model-space entity that carries no code-8 tag
\* is grouped under the layer named "0".
C14_DefaultLayer ==
    (src = "text" /\ pc = "done" /\ M.kind = "face" /\ impl # "parseDXF")
    => \A e \in Range(entities) :
          LayerTags(docs[call].pairs, e.at) = <<>>
          => \A o \in TopPrimitives(group) : o.of = e.at => LayerOf(o) = <<"0">>

\* C15: a code-8 tag read while an entity is in progress sets the layer of that
\* entity to the value of the tag, and every committed entity has the layer of
\* its code-8 tag.
C15_LayerTagSetsLayer ==
    src = "text"
    => /\ (pc = "pass1" /\ ~last.skipped /\ last.code.val = 8 /\ currentEntity # NoEntity)
             => currentEntity.layer = last.value
       /\ \A e \in Stored :
             LET ls == LayerTags(docs[call].pairs, e.at)
             IN ls # <<>> => e.layer = Trim(ls[Len(ls)][2])

\* the entity types the builder has a rule for
SupportedTypes ==
    {LINE, <<"LWPOLYLINE">>, <<"CIRCLE">>, <<"ARC">>, <<"SPLINE">>, FACE, INSERT}

\* C20: an entity whose type is outside the supported set is captured under its
\* type string in the bucket of its section, no object is built for it, and
\* the entities that follow it are decoded and built as if it were absent.
C20_UnsupportedTypeCaptured ==
    (src = "text" /\ impl \in Impls)
    => /\ (pc = "pass1" /\ IsTypeTag(last) /\ InDecodableContext(Locals))
             => currentEntity.type = last.value
       /\ pc = "done"
             => \A o \in ObjectsIn(group) :
                   \A e \in Stored : e.type \notin SupportedTypes => o.of # e.at
       /\ (pc = "done" /\ call = 2 /\ M.kind = "face")
             => Shapes(groups[1]) = Shapes(groups[2])

-----------------------------------------------------------------------------
(* Properties of the loading of a batch of files *)

\* the groups of the scene made for file k
GroupsOf(k) == {j \in 1 .. Len(load.scene) : load.scene[j].file = k}

\* the fatal conditions of a file: no content, less than 10 characters of
\* content, content that starts with the binary marker
Fatal(content) == content = <<>> \/ Length(content) < 10 \/ StartsWithMarker(content)

\* the lines and meshes of the scene
Geometry ==
    UNION { {o \in ObjectsIn(load.scene[j].group) : o.kind \in {"Line", "Mesh"}} :
            j \in 1 .. Len(load.scene) }

\* C16: content that starts with "AutoCAD Binary DXF" is rejected before any
\* tag is parsed: the file is never handed to the decoder and no group of the
\* scene is made for it.
C16_BinaryRejected ==
    \A k \in 1 .. Len(files) :
        StartsWithMarker(files[k]) => k \notin load.parsed /\ GroupsOf(k) = {}

\* C17: when a load of several files is over, every file that has no fatal
\* condition and whose parse did not fail has been parsed and has exactly one
\* group in the scene, whatever the other files of the batch were.
C17_OtherFilesLoad ==
    load.phase = "finished"
    => \A k \in 1 .. Len(files) :
          (~Fatal(files[k]) /\ k \notin load.failed)
          => k \in load.parsed /\ Cardinality(GroupsOf(k)) = 1

\* C18: when a load by loadAllDXFFiles is over, a file with a fatal condition
\* has left an error the caller can observe, and no exception was thrown for it.
C18_FatalConditionsReported ==
    (load.loader # "handleImport" /\ load.phase = "finished")
    => \A k \in 1 .. Len(files) :
          Fatal(files[k]) => load.error # "" /\ k \notin load.failed

\* C19: when a load by loadAllDXFFiles is over, files were parsed, none of the
\* parses failed and the scene holds no line and no mesh, the error is the
\* "no viewable objects" message, which is not the message of a processing
\* failure.
C19_NoViewableObjects ==
    (load.loader # "handleImport" /\ load.phase = "finished"
     /\ load.parsed # {} /\ load.failed = {} /\ Geometry = {})
    => /\ load.error = NoViewableMessage(load.loader)
       /\ load.error # FailureMessage(load.loader)

-----------------------------------------------------------------------------
(* Properties of the decode pass *)

\* the value of the last tag of code 0 among tags, Null if there is none
RECURSIVE LastCode0(_)
LastCode0(ts) ==
    IF ts = <<>> THEN Null
    ELSE IF ts[Len(ts)].code = 0 THEN ts[Len(ts)].value
    ELSE LastCode0(SubSeq(ts, 1, Len(ts) - 1))

\* C21: the active section changes from none to ENTITIES or BLOCKS only at a
\* tag of code 2 that carries that name and whose last preceding tag of code 0
\* is SECTION; a code-2 tag ENTITIES or BLOCKS anywhere else opens no section.
C21_SectionOpensAfterSECTION ==
    [][(src = "text" /\ pc = "pass1" /\ pc' = "pass1" /\ section = Null /\ section' # Null)
        => /\ ~last'.skipped /\ last'.code.val = 2 /\ last'.value = section'
           /\ section' \in {ENTITIES, BLOCKS}
           /\ LastCode0(tags) = SECTION]_vars

\* C22: the decode pass is one forward pass that always reaches the end of the
\* stream: every iteration moves the line index two lines on, whatever the
\* pair holds, the pass that has begun ends, and it ends with no pair of lines
\* left to examine.
C22_SinglePassTerminates ==
    /\ [][(pc = "pass1" /\ pc' = "pass1") => i' = i + 2]_vars
    /\ [](pc = "pass2" => ~LoopContinues(lines, i))
    /\ (pc = "pass1") ~> (pc = "pass2")

\* C22 witness: the pass has ended on a file of three pairs, one of which
\* yielded no tag.
C22_Witness ==
    /\ pc = "pass2" /\ i = 6
    /\ Len(tags) = 2

\* C23: a committed entity is never changed: during the decode pass every
\* entity held by the model-space list, the block buffer or a block definition
\* is an entity that was held before or the entity just committed, and a
\* property tag (code other than 0 and 2) read while no entity is in progress
\* changes no entity, no block definition and no list.
C23_CommittedEntitiesFrozen ==
    [][(pc = "pass1" /\ pc' = "pass1")
        => /\ Stored' \subseteq Stored \cup {currentEntity}
           /\ (currentEntity = NoEntity /\ ~last'.skipped /\ last'.code.val \notin {0, 2})
                 => UNCHANGED decoderVars]_vars

\* C23 witness: a property tag of code 10 was just read after the tag that
\* committed the entity of the model-space list, with no entity in progress.
C23_Witness ==
    /\ pc = "pass1" /\ ~last.skipped /\ last.code.val = 10
    /\ currentEntity = NoEntity
    /\ entities # <<>>

\* C24: when the stream of parseDXF ends while an entity begun inside ENTITIES
\* is in progress, the final commit makes it, with all its fields, the last
\* element of the model-space list, behind the entities the list already held.
C24_FinalCommitFlushes ==
    [][(impl = "parseDXF" /\ pc = "pass1" /\ pc' = "pass2" /\ currentEntity # NoEntity
        /\ currentEntity.sec0 = ENTITIES)
        => /\ entities' = Append(entities, currentEntity)
           /\ currentEntity' = NoEntity]_vars

\* C24 witness: the stream has ended right after a property tag of the second
\* entity of model space; the entity is the last of the list and has the value
\* of the tag.
C24_Witness ==
    /\ impl = "parseDXF" /\ pc = "pass2" /\ Len(entities) = 2
    /\ entities[2].at = (i \div 2) - 1
    /\ entities[2].x = Num(5)

\* C25: decoding depends on the text alone: the third call, made on the text
\* of the first after a call on any text, the same or another, ends pass 1
\* with the model-space entities and the block definitions the first call had,
\* and returns the group the first call returned.
C25_DecodingDependsOnTextOnly ==
    /\ (call = 3 /\ pc \in {"pass2", "done"}) => decoded[3] = decoded[1]
    /\ (call = 3 /\ pc = "done") => Shapes(groups[3]) = Shapes(groups[1])

\* C25 witness: a file without any section has been parsed again after a file
\* that ended inside its ENTITIES section with an entity in progress, and has
\* again yielded no entity.
C25_Witness ==
    /\ call = 3 /\ pc = "done"
    /\ docs[1].m.kind = "bare" /\ docs[2].m.kind = "openentities"
    /\ decoded[2].entities # <<>>
    /\ decoded[3].entities = <<>>

\* the names of the defined blocks the INSERTs of a list refer to
InsertNames(q) ==
    {e.blockName : e \in {f \in Range(q) : Resolves(f, blocks)}}

\* the blocks reached from the blocks S through the INSERTs they hold
RECURSIVE ReachedFrom(_)
ReachedFrom(S) ==
    LET T == S \cup UNION {InsertNames(blocks[n]) : n \in S}
    IN IF T = S THEN S ELSE ReachedFrom(T)

\* the blocks an INSERT reachable from model space references
Referenced == ReachedFrom(InsertNames(entities))

\* C26: a block definition is never built directly: when a parse returns, every
\* object of the returned group was made for a model-space entity, the
\* children of every group were made for entities of the block its INSERT
\* names, and no object at any depth was made for an entity of a block that no
\* INSERT reachable from model space references.
C26_BlocksOnlyThroughInsert ==
    (pc = "done" /\ impl \in Impls)
    => /\ \A o \in Range(group) : \E e \in Range(entities) : o.of = e.at
       /\ \A o \in ObjectsIn(group) :
             o.children # <<>>
             => \E e \in Stored :
                   /\ e.at = o.of /\ Resolves(e, blocks)
                   /\ \A c \in Range(o.children) :
                         \E b \in Range(blocks[e.blockName]) : c.of = b.at
       /\ \A n \in (DOMAIN blocks) \ Referenced :
             \A b \in Range(blocks[n]), o \in ObjectsIn(group) : o.of # b.at

\* C26 witness: a parse has returned a group with an object in it while a
\* defined block holding a LINE is referenced by no INSERT reachable from
\* model space.
C26_Witness ==
    /\ pc = "done" /\ impl \in Impls /\ group # <<>>
    /\ \E n \in (DOMAIN blocks) \ Referenced :
          \E b \in Range(blocks[n]) : b.type = LINE

-----------------------------------------------------------------------------
(* Properties of polylines and curves *)

\* the lines built for the model-space entities
Lines == {o \in TopPrimitives(group) : o.kind = "Line"}

\* is bit 0 of the flags the drawing's code-70 tag carries set? (no tag: no)
Bit0Set == M.flag # <<>> /\ DecimalValue(M.flag) % 2 = 1

\* vertex number k of the drawing's polyline
ExpectedVertex(k) == [x |-> Num(k), y |-> Num(10 - k)]

XY(p) == [x |-> p.x, y |-> p.y]

\* C27: parseDXF and the layered parser mark an LWPOLYLINE closed exactly when
\* bit 0 of its code-70 flags is set; a closed polyline of n >= 2 vertices is
\* built as a line of n + 1 points whose last point is its first, and an open
\* one as a line of its n vertices, in the order of their code-10 tags.
C27_PolylineClosedByBit0 ==
    (src = "text" /\ pc = "done" /\ M.kind = "poly" /\ impl # "parseAndBuildDXF")
    => /\ Len(entities) = 1 /\ entities[1].type = LWPOLYLINE
       /\ (entities[1].closed = "true") <=> Bit0Set
       /\ M.n >= 2
          => /\ Cardinality(Lines) = 1
             /\ \A o \in Lines :
                   /\ Len(o.path) = IF Bit0Set THEN M.n + 1 ELSE M.n
                   /\ \A k \in 1 .. M.n : XY(o.path[k]) = ExpectedVertex(k)
                   /\ Bit0Set => o.path[M.n + 1] = o.path[1]

\* C27 witness: parseDXF has built a polyline of 3 vertices whose flags are 3
\* as a line of 4 points, and the layered parser one whose flags are 2 as a
\* line of 3 points.
C27_Witness ==
    /\ src = "text" /\ pc = "done" /\ M.kind = "poly" /\ M.n = 3
    /\ \/ /\ impl = "parseDXF" /\ M.flag = <<"3">>
          /\ \E o \in Lines : Len(o.path) = 4 /\ o.path[4] = o.path[1]
       \/ /\ impl = "part_002.parseDXF" /\ M.flag = <<"2">> /\ M.flagFirst
          /\ \E o \in Lines : Len(o.path) = 3

\* a quarter turn, in the unit of turn
Quarter == (Segments * FullTurn) \div 4

\* the radius the drawing's code-40 tags carry
ExpectedRadius == DecimalValue(M.radius)

\* the point where the curve is positioned
ExpectedCentre ==
    IF M.centred THEN [x |-> 5, y |-> 7, z |-> 2] ELSE [x |-> 0, y |-> 0, z |-> 0]

\* the lines built for the drawing's ARC and for its CIRCLE
ArcLines == {o \in Lines : o.of = entities[1].at}
CircleLines == {o \in Lines : o.of = entities[2].at}

\* C30: an ARC from 0 to 90 degrees of radius r is built as a line of 32
\* segments (33 points) positioned at its centre, whose first point is at
\* angle 0 of the circle of radius r around the centre, the point (r, 0, 0),
\* and whose last point is at a quarter turn, the point (0, r, 0); a CIRCLE
\* of the same radius is built as a line of 32 segments whose first and last
\* points are the same.
C30_ArcAndCircleTessellation ==
    (src = "text" /\ pc = "done" /\ M.kind = "curve" /\ M.radius # <<>>)
    => /\ Len(entities) = 2 /\ entities[1].type = ARC /\ entities[2].type = CIRCLE
       /\ (M.start = <<"0">> /\ M.end = <<"9", "0">>)
          => /\ Cardinality(ArcLines) = 1
             /\ \A o \in ArcLines :
                   /\ Len(o.path) = 32 + 1
                   /\ o.path[1] = [turn |-> 0, r |-> ExpectedRadius]
                   /\ o.path[32 + 1] = [turn |-> Quarter, r |-> ExpectedRadius]
                   /\ [x |-> o.x, y |-> o.y, z |-> o.z] = ExpectedCentre
       /\ Cardinality(CircleLines) = 1
       /\ \A o \in CircleLines :
             /\ Len(o.path) = 32 + 1
             /\ o.path[1] = o.path[32 + 1]
             /\ o.path[1].r = ExpectedRadius
             /\ \A j, k \in 1 .. 32 : j # k => o.path[j] # o.path[k]

\* C30 witness: parseDXF has built the line of an ARC from 0 to 90 degrees of
\* radius 2 around (5, 7, 2), with a point at an eighth of a turn half-way,
\* and the line of the CIRCLE.
C30_Witness ==
    /\ src = "text" /\ pc = "done" /\ M.kind = "curve" /\ impl = "parseDXF"
    /\ M.radius = <<"2">> /\ M.start = <<"0">> /\ M.end = <<"9", "0">> /\ M.centred
    /\ \E o \in ArcLines : Len(o.path) = 33 /\ 2 * o.path[17].turn = Quarter /\ o.x = 5
    /\ \E o \in CircleLines : Len(o.path) = 33

-----------------------------------------------------------------------------
(* The scene, its tree and the operations of the viewers on them *)

\* the viewers that hold the groups of the loaded files: the tree panel of
\* part_002 over the groups of its parseDXF, the layer panel of
\* components/MultiDXFViewer.tsx over the groups of parseAndBuildDXF, and the
\* property panel of src/components/MultiDXFViewer.tsx over groups whose
\* materials are made as parseDXF of dxfParser.ts makes them
Apps == {"part_002", "MultiDXFViewer", "src.MultiDXFViewer"}

\* a model-space entity that yields an object: a LINE, a 3DFACE or a resolving
\* INSERT, with the layer name of its code-8 tag ("": no such tag)
Prim(kind, layer) == [kind |-> kind, layer |-> layer]

\* the block of every INSERT of the scenes holds one LINE on layer K
BlockChild == Prim("Line", "K")

\* the entities of a file
FilePlans ==
    { <<Prim("Line", ""), Prim("Mesh", "L")>>,
      <<Prim("Group", "L"), Prim("Line", "K")>> }

\* the files of a load, in order
ScenePlans == UNION { [1 .. n -> FilePlans] : n \in 1 .. MaxFiles }

\* FILE_COLORS[i % FILE_COLORS.length]: the colour of file number f is f
FileColor(f) == f

\* the colour and the opacity (in percent) the panels offer
PickedColors == {0}
PickedOpacities == {50, 100}

IsPrefix(p, q) == Len(p) <= Len(q) /\ SubSeq(q, 1, Len(p)) = p

\* the group an entity's object is added to, as the second component of the
\* object's path: the layer group of e.layer || '0' in part_002; the group of
\* the file elsewhere, where the component only records userData.layer
PathTag(app, e) ==
    CASE app = "part_002" -> (IF e.layer = "" THEN "0" ELSE e.layer)
      [] app = "MultiDXFViewer" -> e.layer
      [] OTHER -> ""

\* the paths of the objects of a scene: <<f>> the group of file f, <<f, l>> the
\* group of layer l (part_002 only), <<f, l, k>> the object of entity k of the
\* file, <<f, l, k, 1>> the object of the block's entity in the group of an INSERT
ScenePaths(app, sc) ==
    { <<f>> : f \in 1 .. Len(sc) }
    \cup (IF app = "part_002"
          THEN UNION { { <<f, PathTag(app, sc[f][k])>> : k \in 1 .. Len(sc[f]) } :
                       f \in 1 .. Len(sc) }
          ELSE {})
    \cup UNION { { <<f, PathTag(app, sc[f][k]), k>> : k \in 1 .. Len(sc[f]) } :
                 f \in 1 .. Len(sc) }
    \cup UNION { { <<f, PathTag(app, sc[f][k]), k, 1>> :
                     k \in {j \in 1 .. Len(sc[f]) : sc[f][j].kind = "Group"} } :
                 f \in 1 .. Len(sc) }

\* the entity an object was made for (a group of a file or a layer: none)
EntityAt(sc, p) ==
    IF Len(p) = 3 THEN sc[p[1]][p[3]]
    ELSE IF Len(p) = 4 THEN BlockChild
    ELSE Prim("Group", "")

\* the material of an object: createObject of part_002 makes matLine and
\* matMesh anew in every call; parseAndBuildDXF makes matLine and matMesh, and
\* parseDXF of dxfParser.ts materialLine and materialMesh, once in every parse
\* call, for all the objects of the file
MaterialOf(app, p, kind) ==
    IF kind = "Group" THEN <<>>
    ELSE IF app = "part_002" THEN p
    ELSE <<p[1], kind>>

\* the objects after the load: every object visible; userData.layer is set by
\* createObj of parseAndBuildDXF only, if (obj && e.layer)
SceneObjects(app, sc) ==
    [p \in ScenePaths(app, sc) |->
        LET e == EntityAt(sc, p) IN
        [kind |-> e.kind, visible |-> TRUE,
         layer |-> IF app = "MultiDXFViewer" /\ Len(p) >= 3 THEN e.layer ELSE "",
         mat |-> MaterialOf(app, p, e.kind), position |-> 0]]

\* the materials after the load: the colour of the file; a mesh material of
\* part_002 and of dxfParser.ts is made transparent with opacity 1
SceneMaterials(app, sc) ==
    LET objs == SceneObjects(app, sc)
        ids == {objs[p].mat : p \in {q \in DOMAIN objs : objs[q].kind # "Group"}}
    IN [m \in ids |->
          [color |-> FileColor(m[1]), opacity |-> 100, wireframe |-> FALSE,
           transparent |-> app # "MultiDXFViewer"
                           /\ \E p \in DOMAIN objs : objs[p].mat = m /\ objs[p].kind = "Mesh"]]

\* layersSet of parseAndBuildDXF: the layer names of the entities, those of
\* blocks included, that yielded an object and have a layer name
LayersSet(sc, f) ==
    {sc[f][k].layer : k \in 1 .. Len(sc[f])}
    \cup (IF \E k \in 1 .. Len(sc[f]) : sc[f][k].kind = "Group" THEN {BlockChild.layer} ELSE {})

\* the nodes after the load.  part_002: fileNode and its children, one for each
\* layer group, keyed by the path of node.object (the ids file_<name> and
\* layer_<file>_<layer> of files of different names).  MultiDXFViewer.tsx:
\* fileStates, a state for each file and one for each of its layers.
SceneNodes(app, sc) ==
    IF app = "part_002"
    THEN [p \in {q \in ScenePaths(app, sc) : Len(q) <= 2} |->
            [visible |-> TRUE, color |-> FileColor(p[1]), opacity |-> 100]]
    ELSE IF app = "MultiDXFViewer"
    THEN [p \in { <<f>> : f \in 1 .. Len(sc) }
                \cup UNION { { <<f, l>> : l \in LayersSet(sc, f) \ {""} } : f \in 1 .. Len(sc) } |->
            [visible |-> TRUE]]
    ELSE [p \in {} |-> [visible |-> TRUE]]

NoOp == [op |-> "none", targets |-> {}]

NewUi(app, sc) ==
    [app |-> app, objs |-> SceneObjects(app, sc), mats |-> SceneMaterials(app, sc),
     nodes |-> SceneNodes(app, sc), selected |-> {}, steps |-> 0, last |-> NoOp]

\* object.traverse: the object and everything below it
Under(p) == {q \in DOMAIN ui.objs : IsPrefix(p, q)}

\* MaterialsUnder traversing the group of the file
MaterialsUnderFile(p) ==
    {ui.objs[q].mat : q \in {r \in Under(<<p[1]>>) : ui.objs[r].kind # "Group"}}

\* the materials of the meshes and lines a traversal of p visits
MaterialsUnder(p) == {ui.objs[q].mat : q \in {r \in Under(p) : ui.objs[r].kind # "Group"}}

Done(op, targets) == [op |-> op, targets |-> targets]

\* everything but ui
modelVars == <<impl, src, docs, files, decoded, parseVars, load>>

\* part_002, toggleNodeVisibility(nodeId): the node of that id gets the
\* opposite of its visibility, and setChildVis gives the same value to every
\* node below it; node.object.visible follows for each of these nodes
ToggleNodeVisibility ==
    /\ ui.app = "part_002" /\ ui.steps < MaxOps
    /\ \E id \in DOMAIN ui.nodes :
          LET newVis == ~ui.nodes[id].visible IN
          ui' = [ui EXCEPT
                   !.nodes = [k \in DOMAIN ui.nodes |->
                                IF IsPrefix(id, k) THEN [ui.nodes[k] EXCEPT !.visible = newVis]
                                ELSE ui.nodes[k]],
                   !.objs = [p \in DOMAIN ui.objs |->
                               IF p \in DOMAIN ui.nodes /\ IsPrefix(id, p)
                               THEN [ui.objs[p] EXCEPT !.visible = newVis]
                               ELSE ui.objs[p]],
                   !.steps = @ + 1,
                   !.last = Done("toggleNodeVisibility", {id})]
    /\ UNCHANGED modelVars

\* part_002, updateNodeColor(nodeId, color): the material of every mesh and
\* line that n.object.traverse visits gets the colour, and so does the node
UpdateNodeColor ==
    /\ ui.app = "part_002" /\ ui.steps < MaxOps
    /\ \E id \in DOMAIN ui.nodes, color \in PickedColors :
          ui' = [ui EXCEPT
                   !.mats = [m \in DOMAIN ui.mats |->
                               IF m \in MaterialsUnder(id)
                               THEN [ui.mats[m] EXCEPT !.color = color]
                               ELSE ui.mats[m]],
                   !.nodes[id].color = color,
                   !.steps = @ + 1,
                   !.last = Done("updateNodeColor", {id})]
    /\ UNCHANGED modelVars

\* part_002, updateNodeOpacity(nodeId, opacity): material.transparent =
\* opacity < 1 and material.opacity = opacity for every mesh and line that
\* n.object.traverse visits, and the node gets the opacity
UpdateNodeOpacity ==
    /\ ui.app = "part_002" /\ ui.steps < MaxOps
    /\ \E id \in DOMAIN ui.nodes, opacity \in PickedOpacities :
          ui' = [ui EXCEPT
                   !.mats = [m \in DOMAIN ui.mats |->
                               IF m \in MaterialsUnder(id)
                               THEN [ui.mats[m] EXCEPT !.opacity = opacity,
                                                       !.transparent = opacity < 100]
                               ELSE ui.mats[m]],
                   !.nodes[id].opacity = opacity,
                   !.steps = @ + 1,
                   !.last = Done("updateNodeOpacity", {id})]
    /\ UNCHANGED modelVars

\* MultiDXFViewer.tsx, toggleLayer(fileId, layerName, visible): the state of
\* that layer of that file gets the value, and so does every object that
\* group.traverse finds with userData.layer === layerName
ToggleLayer ==
    /\ ui.app = "MultiDXFViewer" /\ ui.steps < MaxOps
    /\ \E id \in {k \in DOMAIN ui.nodes : Len(k) = 2}, visible \in BOOLEAN :
          ui' = [ui EXCEPT
                   !.nodes[id].visible = visible,
                   !.objs = [p \in DOMAIN ui.objs |->
                               IF p \in Under(<<id[1]>>) /\ ui.objs[p].layer = id[2]
                               THEN [ui.objs[p] EXCEPT !.visible = visible]
                               ELSE ui.objs[p]],
                   !.steps = @ + 1,
                   !.last = Done("toggleLayer", {id})]
    /\ UNCHANGED modelVars

\* MultiDXFViewer.tsx, toggleFile(fileId, visible): the state of the file and
\* its group get the value
ToggleFile ==
    /\ ui.app = "MultiDXFViewer" /\ ui.steps < MaxOps
    /\ \E id \in {k \in DOMAIN ui.nodes : Len(k) = 1}, visible \in BOOLEAN :
          ui' = [ui EXCEPT
                   !.nodes[id].visible = visible,
                   !.objs[id].visible = visible,
                   !.steps = @ + 1,
                   !.last = Done("toggleFile", {id})]
    /\ UNCHANGED modelVars

\* src/components/MultiDXFViewer.tsx, handlePointerDown: from the object hit,
\* the loop climbs to the first object with userData.isBlock or with a name
\* that starts with auto- or manual-.  No code of the repository sets
\* userData.isBlock, so the objects it ends at are the groups of the files.
Selectable == {p \in DOMAIN ui.objs : Len(p) = 1}

\* handlePointerDown: a hit with the control key toggles the object in the
\* selection, a hit without it replaces the selection, and a click on the
\* background (hit = <<>>) without the control key clears it
Select ==
    /\ ui.app = "src.MultiDXFViewer" /\ ui.steps < MaxOps
    /\ \E hit \in Selectable \cup {<<>>}, ctrlKey \in BOOLEAN :
          ui' = [ui EXCEPT
                   !.selected = IF hit = <<>> THEN (IF ctrlKey THEN @ ELSE {})
                                ELSE IF ctrlKey
                                THEN (IF hit \in @ THEN @ \ {hit} ELSE @ \cup {hit})
                                ELSE {hit},
                   !.last = Done("select", {})]
    /\ UNCHANGED modelVars

\* src/components/MultiDXFViewer.tsx, updateSelectedProperty(key, value): for
\* every selected object, the position of the object, or the colour or the
\* opacity of the material of every mesh and line that obj.traverse visits
UpdateSelectedProperty ==
    /\ ui.app = "src.MultiDXFViewer" /\ ui.steps < MaxOps
    /\ ui.selected # {}
    /\ LET touched == UNION {MaterialsUnder(p) : p \in ui.selected} IN
       \/ ui' = [ui EXCEPT
                   !.objs = [p \in DOMAIN ui.objs |->
                               IF p \in ui.selected THEN [ui.objs[p] EXCEPT !.position = 1]
                               ELSE ui.objs[p]],
                   !.steps = @ + 1,
                   !.last = Done("updateSelectedProperty", ui.selected)]
       \/ \E color \in PickedColors :
             ui' = [ui EXCEPT
                      !.mats = [m \in DOMAIN ui.mats |->
                                  IF m \in touched THEN [ui.mats[m] EXCEPT !.color = color]
                                  ELSE ui.mats[m]],
                      !.steps = @ + 1,
                      !.last = Done("updateSelectedProperty", ui.selected)]
       \/ \E opacity \in PickedOpacities :
             ui' = [ui EXCEPT
                      !.mats = [m \in DOMAIN ui.mats |->
                                  IF m \in touched
                                  THEN [ui.mats[m] EXCEPT !.opacity = opacity,
                                                          !.transparent = opacity < 100]
                                  ELSE ui.mats[m]],
                      !.steps = @ + 1,
                      !.last = Done("updateSelectedProperty", ui.selected)]
    /\ UNCHANGED modelVars

\* the scene after a load, no parse call running
InitTree ==
    /\ \E app \in Apps, sc \in ScenePlans : ui = NewUi(app, sc)
    /\ impl = CASE ui.app = "part_002" -> "part_002.parseDXF"
                [] ui.app = "MultiDXFViewer" -> "parseAndBuildDXF"
                [] OTHER -> "parseDXF"
    /\ src = "text"
    /\ docs = <<>>
    /\ files = <<>>
    /\ call = 0
    /\ pc = "idle"
    /\ lines = <<>>
    /\ i = 0
    /\ SetLocals0
    /\ stack = <<>>
    /\ group = <<>>
    /\ groups = <<>>
    /\ tags = <<>>
    /\ last = NoTag
    /\ blockAt = 0
    /\ blockSrc = <<>>
    /\ blk = NoBlk
    /\ closed = NoClosed
    /\ maxDepth = 0
    /\ layerGroups = <<>>
    /\ decoded = <<>>
    /\ load = NoLoad

NextTree ==
    \/ ToggleNodeVisibility \/ UpdateNodeColor \/ UpdateNodeOpacity
    \/ ToggleLayer \/ ToggleFile \/ Select \/ UpdateSelectedProperty

SpecTree == InitTree /\ [][NextTree]_vars

-----------------------------------------------------------------------------
(* The render modes of components/MultiDXFViewer.tsx *)

RenderModes == {"shaded", "wireframe", "xray", "sizeMap"}

\* the lines and meshes scene.traverse visits
Drawn == {p \in DOMAIN ui.objs : ui.objs[p].kind # "Group"}

\* the diagonal of the bounding box of an object of the scenes: entity k of a
\* file is drawn with diagonal k, the line of a block with diagonal 3
Diagonal(p) == IF Len(p) = 4 THEN 3 ELSE p[3]

\* scene.traverse visits q before p: the files in order, the entities of a
\* file in order, the children of a group after the group
VisitedBefore(q, p) ==
    \/ q[1] < p[1]
    \/ q[1] = p[1] /\ (q[3] < p[3] \/ (q[3] = p[3] /\ Len(q) < Len(p)))

\* new THREE.Color().setHSL(hue / 360, 0.8, 0.5), as a colour distinct from
\* the colours of the files
HueColor(hue) == 1000 + hue

\* the colour and the opacity (in percent) of the gradient for a diagonal:
\* t = (size - minSize) / range, hue = (1 - t) * 240, opacity = 0.3 + t * 0.7
Gradient(size, minSize, maxSize) ==
    LET range == IF maxSize - minSize = 0 THEN 1 ELSE maxSize - minSize
    IN [color |-> HueColor(((range - (size - minSize)) * 240) \div range),
        opacity |-> 30 + ((size - minSize) * 70) \div range]

MinSize == CHOOSE n \in {Diagonal(p) : p \in Drawn} : \A q \in Drawn : n <= Diagonal(q)

MaxSize == CHOOSE n \in {Diagonal(p) : p \in Drawn} : \A q \in Drawn : n >= Diagonal(q)

\* the object whose colour a material holds after objectSizes.forEach: the
\* last of the objects that have this material
LastWritten(m) ==
    CHOOSE p \in Drawn :
       /\ ui.objs[p].mat = m
       /\ \A q \in Drawn : (ui.objs[q].mat = m /\ q # p) => VisitedBefore(q, p)

\* applySizeBasedColoring: every line and mesh, in the order of the
\* traversal, writes the colour and the opacity of its diagonal to obj.material
SizeColored(m) ==
    LET g == Gradient(Diagonal(LastWritten(m)), MinSize, MaxSize)
    IN [ui.mats[m] EXCEPT !.color = g.color, !.transparent = TRUE, !.opacity = g.opacity]

\* the other modes: wireframe on the material of a mesh, transparent and
\* opacity 0.4 for xray
ModeApplied(m, mode) ==
    [ui.mats[m] EXCEPT
       !.wireframe = IF \E p \in Drawn : ui.objs[p].mat = m /\ ui.objs[p].kind = "Mesh"
                     THEN mode = "wireframe" ELSE @,
       !.transparent = (mode = "xray"),
       !.opacity = IF mode = "xray" THEN 40 ELSE 100]

\* changeRenderMode(mode)
ChangeRenderMode ==
    /\ ui.app = "MultiDXFViewer" /\ ui.steps < MaxOps
    /\ \E mode \in RenderModes :
          ui' = [ui EXCEPT
                   !.mats = [m \in DOMAIN ui.mats |->
                               IF mode = "sizeMap" THEN SizeColored(m)
                               ELSE ModeApplied(m, mode)],
                   !.steps = @ + 1,
                   !.last = Done(mode, {})]
    /\ UNCHANGED modelVars

InitColor == InitTree /\ ui.app = "MultiDXFViewer"

NextColor == ChangeRenderMode \/ ToggleLayer \/ ToggleFile

SpecColor == InitColor /\ [][NextColor]_vars

-----------------------------------------------------------------------------
(* Properties of the scene tree *)

\* the operation just done toggled the visibility of a node
Toggled == ui.last.op \in {"toggleNodeVisibility", "toggleLayer", "toggleFile"}

\* the scene objects of a node: node.object in part_002; in MultiDXFViewer.tsx
\* the group of a file, and the objects of the file tagged with a layer
NodeObjects(k) ==
    IF ui.app = "part_002" \/ Len(k) = 1 THEN {k}
    ELSE {p \in Under(<<k[1]>>) : ui.objs[p].layer = k[2]}

\* C28: after the visibility of a File or Layer node is toggled, every node of
\* its subtree and every scene object of such a node has the visibility the
\* toggled node now has.
C28_ToggleCascades ==
    (ui.app # "none" /\ Toggled)
    => \A id \in ui.last.targets :
          \A k \in {n \in DOMAIN ui.nodes : IsPrefix(id, n)} :
             /\ ui.nodes[k].visible = ui.nodes[id].visible
             /\ \A p \in NodeObjects(k) : ui.objs[p].visible = ui.nodes[id].visible

\* the operations that change the visibility, the colour or the opacity of a node
ChangeOps ==
    {"toggleNodeVisibility", "updateNodeColor", "updateNodeOpacity",
     "toggleLayer", "toggleFile", "updateSelectedProperty"}

\* the objects of the subtree of a node or of a selected object
SubtreeObjects(t) == UNION {Under(q) : q \in NodeObjects(t)}

\* the material an object is drawn with (a group: none)
Appearance(u, p) == IF u.objs[p].kind = "Group" THEN <<>> ELSE <<u.mats[u.objs[p].mat]>>

-----------------------------------------------------------------------------
(* Properties of the nesting bound of createObj *)

\* the number of levels of an object: 1 for an object without children
RECURSIVE Height(_)
Height(o) ==
    IF o.children = <<>> THEN 1
    ELSE 1 + CHOOSE h \in {Height(c) : c \in Range(o.children)} :
                 \A c \in Range(o.children) : Height(c) <= h

\* what the entities of a list yield when the entities of blocks are unfolded
\* down to level 8 and everything below is left out
RECURSIVE UnfoldedTo8(_, _)
UnfoldedTo8(ents, level) ==
    IF ents = <<>> THEN <<>>
    ELSE LET e == Head(ents)
             obj == IF level > 8 THEN NoObject
                    ELSE IF Resolves(e, blocks)
                    THEN Object("Group", e, UnfoldedTo8(blocks[e.blockName], level + 1))
                    ELSE CreateLeaf(e)
         IN (IF obj = NoObject THEN <<>> ELSE <<obj>>) \o UnfoldedTo8(Tail(ents), level)

\* C31: in parseAndBuildDXF a call of createObj at a level above 8 returns
\* nothing and raises no error: the returned group holds what the entities
\* yield at levels 0 to 8, whole, and no object of it is nested deeper.
C31_NestingCutAtLevel8 ==
    (impl = "parseAndBuildDXF" /\ pc = "done")
    => /\ group = UnfoldedTo8(entities, 0)
       /\ \A o \in Range(group) : Height(o) <= 9
       /\ maxDepth <= 8

\* C31 witness: parseAndBuildDXF has returned the group of a drawing whose
\* block inserts itself: groups are nested 9 deep, levels 0 to 8.
C31_Witness ==
    /\ impl = "parseAndBuildDXF" /\ pc = "done" /\ maxDepth = 8
    /\ \E o \in Range(group) : Height(o) = 9

-----------------------------------------------------------------------------
(* Properties of the code-2 rules *)

\* the rules a code-2 tag of a given value falls under, in the state before it
SectionNameRule(value) == section = Null /\ value \in {ENTITIES, BLOCKS}
BlockNameRule == section = BLOCKS /\ currentBlockName = EmptyStr

\* C32: in parseDXF a code-2 tag read inside BLOCKS while the name of the open
\* block is still the empty placeholder becomes the name of the block and
\* leaves the entity in progress, an INSERT included, as it is; a code-2 tag
\* changes the entity in progress only when neither the section-name rule nor
\* the block-name rule applies, and then the INSERT in progress gets the value
\* as the name of the block it references.
C32_BlockNameBeforeInsertName ==
    [][(impl = "parseDXF" /\ pc = "pass1" /\ pc' = "pass1"
        /\ ~last'.skipped /\ last'.code.val = 2)
       => /\ BlockNameRule
             => /\ currentBlockName' = last'.value
                /\ currentEntity' = currentEntity
          /\ currentEntity' # currentEntity
             => /\ ~SectionNameRule(last'.value) /\ ~BlockNameRule
                /\ currentEntity.type = INSERT
                /\ currentEntity' = [currentEntity EXCEPT !.blockName = last'.value]
          /\ (currentEntity # NoEntity /\ currentEntity.type = INSERT
              /\ ~SectionNameRule(last'.value) /\ ~BlockNameRule)
             => currentEntity'.blockName = last'.value]_vars

\* C32 witness: inside BLOCKS an INSERT was begun before the open block had a
\* name, and the code-2 tag just read has named the block, not the INSERT.
C32_Witness ==
    /\ impl = "parseDXF" /\ pc = "pass1" /\ section = BLOCKS
    /\ ~last.skipped /\ last.code.val = 2 /\ last.value # EmptyStr
    /\ currentBlockName = last.value
    /\ currentEntity # NoEntity /\ currentEntity.type = INSERT
    /\ ~Truthy(currentEntity.blockName)

-----------------------------------------------------------------------------
(* Properties of the entity in progress and the active section *)

\* the same entity is in progress before and after the step
SameEntityInProgress ==
    /\ currentEntity # NoEntity /\ currentEntity' # NoEntity
    /\ currentEntity'.at = currentEntity.at

\* C33: in parseDXF, at every tag boundary an entity in progress implies that
\* the section is ENTITIES, or BLOCKS with a block open (currentBlockName not
\* null), and the active section never changes between two tag boundaries that
\* have the same entity in progress.
C33_EntityOnlyInDecodableSection ==
    /\ []((impl = "parseDXF" /\ pc = "pass1" /\ currentEntity # NoEntity)
          => (section = ENTITIES \/ (section = BLOCKS /\ currentBlockName # Null)))
    /\ [][(impl = "parseDXF" /\ pc = "pass1" /\ pc' = "pass1" /\ SameEntityInProgress)
          => section' = section]_vars

\* C33 witness: parseDXF is at a tag boundary inside the BLOCKS section with a
\* block open, an entity in progress whose type tag was read at least one tag
\* earlier, and a block entity already buffered.
C33_Witness ==
    /\ impl = "parseDXF" /\ pc = "pass1" /\ section = BLOCKS
    /\ currentBlockName # Null
    /\ currentEntity # NoEntity /\ ~IsTypeTag(last)
    /\ currentBlockEntities # <<>>

-----------------------------------------------------------------------------
(* Properties of the layer groups of a file *)

\* the distinct layer names of the model-space entities
LayerNames == {LayerName(e) : e \in Range(entities)}

\* the layer groups of the file group that are named after layer n
GroupsNamed(n) == {k \in 1 .. Len(group) : group[k].name = <<"layer_">> \o n}

\* the layer groups that hold object o
Holders(o) == {k \in 1 .. Len(group) : o \in Range(group[k].children)}

\* C34: after a parse by parseDXF of part_002 the file group has exactly one
\* layer group per distinct layer name among the model-space entities, also
\* for a layer whose entities produced no geometry, and every top-level
\* primitive is a child of exactly one layer group, the one named by the layer
\* of its entity.
C34_OneGroupPerLayer ==
    (Layered /\ src = "text" /\ pc = "done")
    => /\ \A n \in LayerNames : Cardinality(GroupsNamed(n)) = 1
       /\ Len(group) = Cardinality(LayerNames)
       /\ \A o \in TopPrimitives(group) :
             /\ Cardinality(Holders(o)) = 1
             /\ \A e \in Range(entities) :
                   e.at = o.of => Holders(o) = GroupsNamed(LayerName(e))

-----------------------------------------------------------------------------
(* Properties of a reload *)

\* the files of the list whose content the loader accepts
Accepted == {k \in 1 .. Len(files) : ~Rejects(load.loader, files[k])}

\* the groups of the scene and the nodes of the file tree made for file k by
\* the load that just ended
GroupsFor(k) ==
    {j \in 1 .. Len(load.scene) : load.scene[j].file = k /\ load.scene[j].gen = load.gen}

NodesFor(k) ==
    {j \in 1 .. Len(load.tree) : load.tree[j].file = k /\ load.tree[j].gen = load.gen}

\* C35: after a load of a file list has ended, the scene and the file tree
\* hold exactly one group and one node for each accepted file of that list,
\* and no group and no node of an earlier load, however many loads came before.
C35_DiscardAndRebuild ==
    (load.loader \in TreeLoaders /\ load.phase = "finished")
    => /\ \A k \in Accepted :
             Cardinality(GroupsFor(k)) = 1 /\ Cardinality(NodesFor(k)) = 1
       /\ \A j \in 1 .. Len(load.scene) : load.scene[j].gen = load.gen
       /\ \A j \in 1 .. Len(load.tree) : load.tree[j].gen = load.gen

\* a group named by the id of file k is registered in objectsMapRef and is a
\* child of the scene
InScene(k) ==
    \E j \in 1 .. Len(load.map) :
       /\ load.map[j].name = FileId(k)
       /\ \E n \in 1 .. Len(load.scene) : load.scene[n] = load.map[j]

\* C36: after handleImport every file state has loaded = true exactly when a
\* group for its file id is registered in the object map and attached to the
\* scene.
C36_LoadedMeansInScene ==
    (load.loader = "handleImport" /\ load.phase = "finished")
    => \A j \in 1 .. Len(load.tree) :
          load.tree[j].loaded <=> InScene(load.tree[j].file)

-----------------------------------------------------------------------------
(* Adding files by hand: handleManualFileAdd of AutoDXFLoader *)

\* the files picked in the dialog, by extension
Selections == SeqsUpTo({"dxf", "other"}, MaxSelected)

\* the state of the loader: reads[k] is what became of the FileReader of
\* picked file k, newFiles the local array of the handler, awaiting whether
\* the handler is at await Promise.all(readers); adds is history
NewLoader(error) ==
    [app |-> "AutoDXFLoader", loading |-> FALSE, awaiting |-> FALSE, reads |-> <<>>,
     newFiles |-> <<>>, dxfFiles |-> <<>>, error |-> error, adds |-> 0]

\* the handler up to await Promise.all(readers): nothing picked returns at
\* once; a file whose name does not end in .dxf gets no reader
HandleManualFileAdd ==
    /\ ui.app = "AutoDXFLoader" /\ ~ui.awaiting /\ ui.adds < MaxAdds
    /\ \E sel \in Selections :
          ui' = IF sel = <<>>
                THEN [ui EXCEPT !.adds = @ + 1]
                ELSE [ui EXCEPT !.adds = @ + 1, !.loading = TRUE, !.awaiting = TRUE,
                                !.newFiles = <<>>,
                                !.reads = [k \in 1 .. Len(sel) |->
                                             IF sel[k] = "dxf" THEN "reading" ELSE "skipped"]]
    /\ UNCHANGED modelVars

Reading(k) ==
    ui.app = "AutoDXFLoader" /\ k \in 1 .. Len(ui.reads) /\ ui.reads[k] = "reading"

\* reader.onload with content: the file is pushed and the promise resolved
ReadLoad(k) ==
    /\ Reading(k)
    /\ ui' = [ui EXCEPT !.reads[k] = "loaded",
                        !.newFiles = Append(@, [add |-> ui.adds, n |-> k])]
    /\ UNCHANGED modelVars

\* reader.onload with empty content: the promise is resolved only
ReadEmpty(k) ==
    /\ Reading(k)
    /\ ui' = [ui EXCEPT !.reads[k] = "empty"]
    /\ UNCHANGED modelVars

\* the read fails: the reader has no onerror handler, the promise stays pending
ReadError(k) ==
    /\ Reading(k)
    /\ ui' = [ui EXCEPT !.reads[k] = "error"]
    /\ UNCHANGED modelVars

FinishRead(k) == ReadLoad(k) \/ ReadEmpty(k) \/ ReadError(k)

\* every promise of readers is resolved
AllResolved == \A k \in 1 .. Len(ui.reads) : ui.reads[k] \in {"loaded", "empty", "skipped"}

ResumeEnabled == ui.app = "AutoDXFLoader" /\ ui.awaiting /\ AllResolved

\* the handler after await Promise.all(readers)
Resume ==
    /\ ResumeEnabled
    /\ ui' = [ui EXCEPT !.awaiting = FALSE, !.loading = FALSE,
                        !.dxfFiles = @ \o ui.newFiles,
                        !.error = IF ui.newFiles # <<>> THEN "" ELSE @]
    /\ UNCHANGED modelVars

InitAdd ==
    /\ ui \in {NewLoader(""), NewLoader("Failed to auto-load files.")}
    /\ impl = "parseDXF"
    /\ src = "text"
    /\ docs = <<>>
    /\ files = <<>>
    /\ call = 0
    /\ pc = "idle"
    /\ lines = <<>>
    /\ i = 0
    /\ SetLocals0
    /\ stack = <<>>
    /\ group = <<>>
    /\ groups = <<>>
    /\ tags = <<>>
    /\ last = NoTag
    /\ blockAt = 0
    /\ blockSrc = <<>>
    /\ blk = NoBlk
    /\ closed = NoClosed
    /\ maxDepth = 0
    /\ layerGroups = <<>>
    /\ decoded = <<>>
    /\ load = NoLoad

NextAdd ==
    \/ HandleManualFileAdd
    \/ \E k \in 1 .. MaxSelected : ReadLoad(k)
    \/ \E k \in 1 .. MaxSelected : ReadEmpty(k)
    \/ \E k \in 1 .. MaxSelected : ReadError(k)
    \/ Resume

\* every read that was started ends (in load or error), and the handler goes
\* on once Promise.all is resolved
SpecAdd ==
    /\ InitAdd /\ [][NextAdd]_vars
    /\ \A k \in 1 .. MaxSelected : WF_vars(FinishRead(k))
    /\ WF_vars(Resume)

\* C37: once handleManualFileAdd has set loading to true, loading eventually
\* returns to false, whatever the outcome and the completion order of the
\* file reads (success, empty content, read error).
C37_LoadingEventuallyFalse == ui.loading ~> ~ui.loading

-----------------------------------------------------------------------------
(* Moving, rotating and undo: moveObject, rotateObject, undo of part_002 *)

\* the objects of the tree nodes that can be selected
EditObjects == {"a", "b"}

Axes == {"x", "y", "z"}

Origin == [x |-> 0, y |-> 0, z |-> 0]

\* position and rotation (in degrees) of an object
Transform(position, rotation) == [position |-> position, rotation |-> rotation]

NoSelection == "<none>"

\* the state of the viewer: objs the transforms of the objects, selected the
\* object of selectedNode, history the React state of that name; orig, edits
\* and last are history variables of the model
NewEditor(selected) ==
    [app |-> "part_002.edit", objs |-> [o \in EditObjects |-> Transform(Origin, Origin)],
     orig |-> [o \in EditObjects |-> Transform(Origin, Origin)],
     selected |-> selected, history |-> <<>>, edits |-> 0, last |-> "none"]

\* the entry { obj, position.clone(), rotation.clone() } the updater passed to
\* setHistory builds: the clones are made when React runs the updater, at the
\* call if the update queue is empty (eager), else in the next render, after
\* the handler has changed the object
Snapshot(pre, post, eager) == IF eager THEN pre ELSE post

\* setSelectedNode(node) / setSelectedNode(null)
SelectNode ==
    /\ ui.app = "part_002.edit"
    /\ \E o \in EditObjects \cup {NoSelection} :
          /\ o # ui.selected
          /\ ui' = [ui EXCEPT !.selected = o, !.last = "select"]
    /\ UNCHANGED modelVars

\* the handler of an edit that changes field f (position or rotation) of the
\* selected object on one axis by delta
Edit(op, f, axis, delta, eager) ==
    LET o == ui.selected
        pre == ui.objs[o]
        post == [pre EXCEPT ![f][axis] = @ + delta]
    IN /\ ui.app = "part_002.edit" /\ o # NoSelection /\ ui.edits < MaxEdits
       /\ ui' = [ui EXCEPT !.objs[o] = post,
                           !.history = Append(@, [obj |-> o, at |-> Snapshot(pre, post, eager)]),
                           !.edits = @ + 1, !.last = op]
       /\ UNCHANGED modelVars

\* moveObject(axis, delta), from the buttons X-, X+, Y+, Z-, Y-, Z+
MoveObject ==
    \E axis \in Axes, delta \in {-50, 50}, eager \in BOOLEAN :
       Edit("moveObject", "position", axis, delta, eager)

\* rotateObject(axis, deltaDeg), from the buttons of +90 and -90 degrees
RotateObject ==
    \E axis \in Axes, delta \in {-90, 90}, eager \in BOOLEAN :
       Edit("rotateObject", "rotation", axis, delta, eager)

\* undo: nothing on an empty history, else the objects of the last entry get
\* its position and rotation and the entry is dropped
Undo ==
    /\ ui.app = "part_002.edit"
    /\ ui' = IF ui.history = <<>>
             THEN [ui EXCEPT !.last = "undo"]
             ELSE LET top == ui.history[Len(ui.history)]
                  IN [ui EXCEPT !.objs[top.obj] = top.at,
                                !.history = SubSeq(@, 1, Len(@) - 1),
                                !.last = "undo"]
    /\ ui' # ui
    /\ UNCHANGED modelVars

InitEdit ==
    /\ \E o \in EditObjects \cup {NoSelection} : ui = NewEditor(o)
    /\ impl = "part_002.parseDXF"
    /\ src = "text"
    /\ docs = <<>>
    /\ files = <<>>
    /\ call = 0
    /\ pc = "idle"
    /\ lines = <<>>
    /\ i = 0
    /\ SetLocals0
    /\ stack = <<>>
    /\ group = <<>>
    /\ groups = <<>>
    /\ tags = <<>>
    /\ last = NoTag
    /\ blockAt = 0
    /\ blockSrc = <<>>
    /\ blk = NoBlk
    /\ closed = NoClosed
    /\ maxDepth = 0
    /\ layerGroups = <<>>
    /\ decoded = <<>>
    /\ load = NoLoad

NextEdit == SelectNode \/ MoveObject \/ RotateObject \/ Undo

SpecEdit == InitEdit /\ [][NextEdit]_vars

-----------------------------------------------------------------------------
(* Properties of undo *)

IsEdit == ui'.last \in {"moveObject", "rotateObject"} /\ ui'.edits = ui.edits + 1

IsUndo == ui'.last = "undo" /\ ui'.edits = ui.edits /\ ui'.selected = ui.selected

\* C38: every moveObject and rotateObject pushes the transform its object had
\* before the edit on the history; undo restores the most recent snapshot and
\* pops it, and changes nothing on an empty history; so whenever as many undos
\* as edits have emptied the history, every object is at its original position
\* and rotation.
C38_UndoRestores ==
    /\ [][/\ IsEdit => ui'.history = Append(ui.history, [obj |-> ui.selected,
                                                        at |-> ui.objs[ui.selected]])
          /\ (IsUndo /\ ui.history # <<>>)
                => LET top == ui.history[Len(ui.history)]
                   IN /\ ui'.objs = [ui.objs EXCEPT ![top.obj] = top.at]
                      /\ ui'.history = SubSeq(ui.history, 1, Len(ui.history) - 1)
          /\ (IsUndo /\ ui.history = <<>>)
                => ui'.objs = ui.objs /\ ui'.history = <<>>]_vars
    /\ [](ui.history = <<>> => ui.objs = ui.orig)

-----------------------------------------------------------------------------
(* Properties of the colouring by size *)

\* C39: after applySizeBasedColoring every line and every mesh shows the
\* colour and the opacity computed from its own bounding-box diagonal, the
\* smallest blue and most transparent, the largest red and opaque, whatever
\* the other objects of its file are.
C39_ColourFromOwnSize ==
    (ui.app = "MultiDXFViewer" /\ ui.last.op = "sizeMap")
    => \A p \in Drawn :
          LET shown == ui.mats[ui.objs[p].mat]
              g == Gradient(Diagonal(p), MinSize, MaxSize)
          IN /\ shown.color = g.color /\ shown.opacity = g.opacity
             /\ (Diagonal(p) = MinSize /\ MinSize < MaxSize)
                   => shown.color = HueColor(240) /\ shown.opacity = 30
             /\ (Diagonal(p) = MaxSize /\ MinSize < MaxSize)
                   => shown.color = HueColor(0) /\ shown.opacity = 100
====
